---------------------------- MODULE Spec2Model ----------------------------
(***************************************************************************)
(* A model of the sudoku_tools solving engine: Solver (solver.py), its     *)
(* tracing subclass TracingSolver (tracing_solver.py) and the callers in   *)
(* generator/backend.py.  A Solver is run on one input board from its      *)
(* construction to the return of solve() / solve_filtered(); one action is *)
(* one assignment of the strategy loops (with the narrowing it triggers)   *)
(* or one control step of the surrounding code.                            *)
(***************************************************************************)
EXTENDS Integers, Sequences, FiniteSets, TLC

VARIABLES board, solver, backend

vars == <<board, solver, backend>>

(***************************************************************************)
(* Python values                                                           *)
(***************************************************************************)
\* None in a field that otherwise holds an enum member
None == "None"
\* None / a value in a field that otherwise holds a bool or a set
Nothing == <<>>
Some(v) == <<v>>
\* how a call ended
Running == [kind |-> "running"]
Returned(v) == [kind |-> "return", value |-> v]
Raised(e) == [kind |-> "raise", error |-> e]

\* solver.py:12-14
TUPLE_RANGE9 == 0 .. 8
SET_1_TO_9 == 1 .. 9
Cells == 0 .. 80

\* enum SolverMethod, enum SolverFilterDefault
one_occurrence_in == "one_occurrence_in"
single_possibility == "single_possibility"
SolverMethod == {one_occurrence_in, single_possibility}
SolverFilterDefault == {"exclude", "include"}

\* the errors the entry points raise
InvalidSudokuError == "InvalidSudokuError"
AssertionError == "AssertionError"
ValueError == "ValueError"

\* the function f with every value computed (a function constructor is
\* otherwise evaluated anew at each application)
Eager(f) == f @@ <<>>

\* e, with v evaluated first (a value is otherwise evaluated where it is
\* first used, inside the evaluation that uses it)
Then(v, e) == IF v = v THEN e ELSE e

SetMin(S) == CHOOSE m \in S : \A n \in S : m <= n

\* the digits of a set in the order a Python set of small ints iterates them
RECURSIVE SortedSeq(_)
SortedSeq(S) == IF S = {} THEN <<>> ELSE <<SetMin(S)>> \o SortedSeq(S \ {SetMin(S)})

(***************************************************************************)
(* Coordinates and the 27 lines                                            *)
(***************************************************************************)
idx_to_pos(idx) == <<idx % 9, idx \div 9>>
pos_to_idx(pos) == pos[1] + (pos[2] * 9)

\* the cells of a column, a row, a region in the order the code lists them
x_col(x) == [k \in 1 .. 9 |-> pos_to_idx(<<x, k - 1>>)]
y_row(y) == [k \in 1 .. 9 |-> pos_to_idx(<<k - 1, y>>)]
region(r_idx_x, r_idx_y) ==
    [k \in 1 .. 9 |->
        pos_to_idx(<<(r_idx_x * 3) + ((k - 1) \div 3), (r_idx_y * 3) + ((k - 1) % 3)>>)]

\* line 0..8: columns x; 9..17: rows y; 18..26: regions, ix outer, iy inner
LineSeq(l) ==
    IF l < 9 THEN x_col(l)
    ELSE IF l < 18 THEN y_row(l - 9)
    ELSE region((l - 18) \div 3, (l - 18) % 3)

SeqDirn(l) == IF l < 9 THEN "column" ELSE IF l < 18 THEN "row" ELSE "region"

(***************************************************************************)
(* Solver.__init__                                                         *)
(***************************************************************************)
SquareInfo(v, i) ==
    [value |-> v, options |-> IF v = 0 THEN SET_1_TO_9 ELSE {v}, pos |-> idx_to_pos(i)]

NewGrid(b) == Eager([i \in Cells |-> SquareInfo(b[i], i)])

(***************************************************************************)
(* check_validity                                                          *)
(***************************************************************************)
_check_validity_seq(grid, seq) ==
    LET nz == {k \in 1 .. 9 : grid[seq[k]].value # 0}
    IN  Cardinality({grid[seq[k]].value : k \in nz}) = Cardinality(nz)

_check_validity_x_col(grid, x) == _check_validity_seq(grid, x_col(x))
_check_validity_y_row(grid, y) == _check_validity_seq(grid, y_row(y))
\* a variant that looks at the first column of the region only
Narrow_check_validity_region(grid, r_idx_x, r_idx_y) ==
    _check_validity_seq(grid, [k \in 1 .. 9 |->
        pos_to_idx(<<r_idx_x * 3, (r_idx_y * 3) + ((k - 1) % 3)>>)])

_check_validity_region(grid, r_idx_x, r_idx_y) ==
    _check_validity_seq(grid, region(r_idx_x, r_idx_y))

check_validity(grid) ==
    /\ \A x \in TUPLE_RANGE9 : _check_validity_x_col(grid, x)
    /\ \A y \in TUPLE_RANGE9 : _check_validity_y_row(grid, y)
    /\ \A rx \in 0 .. 2 : \A ry \in 0 .. 2 : _check_validity_region(grid, rx, ry)

is_solved(grid) == \A i \in Cells : grid[i].value # 0

(***************************************************************************)
(* _fill_options, _update_pos                                              *)
(***************************************************************************)
\* the body shared by _fill_options_x_col / _y_row / _region
FillSeq(grid, seq) ==
    LET definite_nums == {grid[seq[k]].value : k \in 1 .. 9} \ {0}
        inseq == {seq[k] : k \in 1 .. 9}
    IN  Eager([i \in Cells |->
            IF i \in inseq /\ grid[i].value = 0
            THEN [grid[i] EXCEPT !.options = @ \ definite_nums]
            ELSE grid[i]])

\* a variant that takes its argument for a column
Column_fill_options_y_row(grid, y) == FillSeq(grid, x_col(y))
_fill_options_x_col(grid, x) == FillSeq(grid, x_col(x))
_fill_options_y_row(grid, y) == FillSeq(grid, y_row(y))
\* a variant that takes the region index for the corner of the region
Unscaled_fill_options_region(grid, r_idx_x, r_idx_y) ==
    FillSeq(grid, [k \in 1 .. 9 |->
                pos_to_idx(<<r_idx_x + ((k - 1) \div 3), r_idx_y + ((k - 1) % 3)>>)])

_fill_options_region(grid, r_idx_x, r_idx_y) == FillSeq(grid, region(r_idx_x, r_idx_y))

\* the lines l .. last in turn, as two halves so that the evaluation nests
\* only as deep as the logarithm of their number
RECURSIVE FillSpan(_, _, _)
FillSpan(grid, l, last) ==
    IF l > last THEN grid
    ELSE IF l = last
    THEN IF l < 9 THEN _fill_options_x_col(grid, l)
         ELSE IF l < 18 THEN _fill_options_y_row(grid, l - 9)
         ELSE _fill_options_region(grid, (l - 18) \div 3, (l - 18) % 3)
    ELSE LET filled == FillSpan(grid, l, (l + last) \div 2)
         IN  Then(filled, FillSpan(filled, ((l + last) \div 2) + 1, last))

FillFrom(grid, l) == FillSpan(grid, l, 26)

_fill_options(grid) == FillFrom(grid, 0)

\* a variant that leaves the options as they are
Unnarrowed_update_pos(grid, pos) == grid

Solver_update_pos(grid, pos) ==
    _fill_options_region(
        _fill_options_y_row(_fill_options_x_col(grid, pos[1]), pos[2]),
        pos[1] \div 3, pos[2] \div 3)

(***************************************************************************)
(* The solver instance together with the frame of the call running on it.  *)
(* cls is the class constructed; grid, has_solution, debug are the fields  *)
(* of Solver; curr_method, curr_data, output those of TracingSolver.  The  *)
(* rest is the running call: pc its position, entry the method called,     *)
(* default/include/exclude its arguments, solvers the resolved strategy    *)
(* set, loop the method whose while-loop runs, changed / x_changed /       *)
(* p_changed the `changed` locals of the loop, of the _x wrapper and of    *)
(* the pass, cursor the scan position of a single_possibility pass, line / *)
(* nums / inside the position of a one_occurrence pass (inside: within     *)
(* _handle_1_occurrence_in_seq of `line`, nums the digits counted once     *)
(* that it still has to visit), ret what the call returned or raised.      *)
(***************************************************************************)
New(cls, b, debug) ==
    [cls |-> cls, grid |-> NewGrid(b), has_solution |-> Nothing, debug |-> debug,
     curr_method |-> None, curr_data |-> None, output |-> <<>>,
     pc |-> "new", entry |-> None, default |-> None, include |-> Nothing,
     exclude |-> Nothing, solvers |-> {}, loop |-> None,
     changed |-> FALSE, x_changed |-> FALSE, p_changed |-> FALSE,
     cursor |-> 0, line |-> 0, nums |-> <<>>, inside |-> FALSE, ret |-> Running]

Tracing(s) == s.cls = "TracingSolver"

\* TracingSolver._step_context: entering sets the context, leaving restores
\* the one saved on entry (always the empty one: strategies do not nest)
\* a variant that restores nothing on the way out
Leaky_ExitContext(s) == s
EnterContext(s, method, data) ==
    IF Tracing(s) THEN [s EXCEPT !.curr_method = method, !.curr_data = data] ELSE s
ExitContext(s) ==
    IF Tracing(s) THEN [s EXCEPT !.curr_method = None, !.curr_data = None] ELSE s

(***************************************************************************)
(* The entry points                                                        *)
(***************************************************************************)
Call_solve(s) == [s EXCEPT !.pc = "pre", !.entry = "solve", !.loop = "solve"]

Call_solve_filtered(s, default, include, exclude) ==
    [s EXCEPT !.pc = "_get_solvers", !.entry = "solve_filtered",
              !.default = default, !.include = include, !.exclude = exclude]

Call_solve_with_solvers(s, solvers) ==
    [s EXCEPT !.pc = "pre", !.entry = "_solve_with_solvers",
              !.loop = "_solve_with_solvers", !.solvers = solvers]

\* a variant whose default policy is always to include
Including_get_solvers(default, exclude, include) ==
    LET inc == IF include = Nothing THEN {} ELSE include[1]
        exc == IF exclude = Nothing THEN {} ELSE exclude[1]
    IN  IF default = "exclude" THEN inc \ exc ELSE (SolverMethod \ exc) \cup inc

\* Solver._get_solvers: the resolved set
_get_solvers(default, exclude, include) ==
    LET dflt == IF default = None
                THEN (IF include = Nothing THEN "include" ELSE "exclude")
                ELSE default
        inc == IF include = Nothing THEN {} ELSE include[1]
        exc == IF exclude = Nothing THEN {} ELSE exclude[1]
    IN  IF dflt = "include" THEN (SolverMethod \ exc) \cup inc ELSE inc \ exc

\* solve_filtered up to its dispatch: the configuration error, solve(), or
\* _solve_with_solvers(solvers)
solve_filtered(s) ==
    LET solvers == _get_solvers(s.default, s.exclude, s.include)
        t == [s EXCEPT !.default = None, !.include = Nothing, !.exclude = Nothing]
    IN  IF Cardinality(solvers) = 0
        THEN [t EXCEPT !.pc = "done", !.ret = Raised(ValueError)]
        ELSE IF solvers = SolverMethod
        THEN [t EXCEPT !.pc = "pre", !.solvers = solvers, !.loop = "solve"]
        ELSE [t EXCEPT !.pc = "pre", !.solvers = solvers, !.loop = "_solve_with_solvers"]

(***************************************************************************)
(* solve / _solve_with_solvers: precondition, _fill_options, the loop      *)
(***************************************************************************)
\* a variant that validates after the options are filled in
Late_Precondition(s) ==
    IF s.debug /\ ~check_validity(s.grid)
    THEN [s EXCEPT !.pc = "done", !.ret = Raised(InvalidSudokuError),
                   !.grid = _fill_options(s.grid)]
    ELSE [s EXCEPT !.pc = "fill"]

Precondition(s) ==
    IF s.debug /\ ~check_validity(s.grid)
    THEN [s EXCEPT !.pc = "done", !.ret = Raised(InvalidSudokuError)]
    ELSE [s EXCEPT !.pc = "fill"]

FillOptions(s) == [s EXCEPT !.grid = _fill_options(s.grid), !.changed = TRUE, !.pc = "while"]

StartSp(s) == [s EXCEPT !.pc = "sp", !.x_changed = FALSE, !.p_changed = FALSE, !.cursor = 0]
StartOoi(s) ==
    [s EXCEPT !.pc = "ooi", !.x_changed = FALSE, !.p_changed = FALSE,
              !.line = 0, !.nums = <<>>, !.inside = FALSE]

\* a variant whose _solve_with_solvers does not clear `changed` at the top
\* of the loop body
Unreset_WhileChanged(s) ==
    IF ~s.changed THEN [s EXCEPT !.pc = "post"]
    ELSE IF s.loop = "solve" THEN StartSp(s)
    ELSE IF single_possibility \in s.solvers THEN StartSp(s)
    ELSE IF one_occurrence_in \in s.solvers THEN StartOoi(s)
    ELSE s

\* the head of `while changed:` and the first call of its body
WhileChanged(s) ==
    IF ~s.changed THEN [s EXCEPT !.pc = "post"]
    ELSE IF s.loop = "solve" THEN StartSp(s)
    ELSE IF single_possibility \in s.solvers THEN StartSp([s EXCEPT !.changed = FALSE])
    ELSE IF one_occurrence_in \in s.solvers THEN StartOoi([s EXCEPT !.changed = FALSE])
    ELSE [s EXCEPT !.changed = FALSE]

Postcondition(s) ==
    IF s.debug /\ ~check_validity(s.grid)
    THEN [s EXCEPT !.pc = "done", !.ret = Raised(AssertionError)]
    ELSE [s EXCEPT !.pc = "done", !.has_solution = Some(is_solved(s.grid)),
                   !.ret = Returned(is_solved(s.grid))]

(***************************************************************************)
(* _update_pos.  TracingSolver first calls the handler registered for the  *)
(* current method, which appends a step, then narrows like Solver.  A step *)
(* holds the SquareInfo object of the cell in its num field (get_pos(pos)),*)
(* modelled as a reference to the cell.                                    *)
(***************************************************************************)
Ref(i) == [kind |-> "SquareInfo", ref |-> i]

_trace_single_possibility(s, pos) ==
    [s EXCEPT !.output = Append(@,
        [cls |-> "SinglePossibilityStep", method |-> single_possibility,
         pos |-> pos, num |-> Ref(pos_to_idx(pos))])]

_trace_one_occurrence(s, pos) ==
    [s EXCEPT !.output = Append(@,
        [cls |-> "OneOccurrenceStep", method |-> one_occurrence_in,
         pos |-> pos, num |-> Ref(pos_to_idx(pos)), dirn |-> s.curr_data])]

\* TRACE_HANDLERS[self._curr_method](self, pos); no handler: KeyError
_get_handler(s, pos) ==
    IF s.curr_method = single_possibility THEN _trace_single_possibility(s, pos)
    ELSE IF s.curr_method = one_occurrence_in THEN _trace_one_occurrence(s, pos)
    ELSE [s EXCEPT !.ret = Raised("KeyError")]

\* a variant whose TracingSolver override records the step and does not
\* go on to the narrowing of Solver
Overriding_update_pos(s, pos) ==
    LET t == IF Tracing(s) THEN _get_handler(s, pos) ELSE s
    IN  IF t.ret # Running
        THEN [ExitContext(t) EXCEPT !.pc = "done"]
        ELSE IF Tracing(s) THEN t
        ELSE [t EXCEPT !.grid = Solver_update_pos(t.grid, pos)]

_update_pos(s, pos) ==
    LET t == IF Tracing(s) THEN _get_handler(s, pos) ELSE s
    IN  IF t.ret # Running
        THEN [ExitContext(t) EXCEPT !.pc = "done"]
        ELSE [t EXCEPT !.grid = Solver_update_pos(t.grid, pos)]

(***************************************************************************)
(* _solve_single_possibilities_x                                           *)
(***************************************************************************)
\* the position visited k-th by `for x in range(9): for y in range(9)`
ScanPos(k) == <<k \div 9, k % 9>>

\* a variant whose scan stops short of the last column
Short_SpNext(s) ==
    LET K == {k \in s.cursor .. 71 :
                LET sq == s.grid[pos_to_idx(ScanPos(k))]
                IN  sq.value = 0 /\ Cardinality(sq.options) = 1}
    IN  IF K = {} THEN 81 ELSE SetMin(K)

\* the next position of the running pass that gets a value; 81: none
SpNext(s) ==
    LET K == {k \in s.cursor .. 80 :
                LET sq == s.grid[pos_to_idx(ScanPos(k))]
                IN  sq.value = 0 /\ Cardinality(sq.options) = 1}
    IN  IF K = {} THEN 81 ELSE SetMin(K)

\* one assignment of _solve_single_possibilities(True), up to the next one
_solve_single_possibilities(s, k) ==
    LET pos == ScanPos(k)
        i == pos_to_idx(pos)
        v == CHOOSE d \in s.grid[i].options : TRUE
        t == EnterContext(s, single_possibility, None)
    IN  _update_pos([t EXCEPT !.grid[i].value = v, !.p_changed = TRUE, !.cursor = k + 1], pos)

\* a variant in which the loop of solve() does not go on to
\* one_occurrence_in
Repeating_solve_single_possibilities_x(s) ==
    LET t == ExitContext(s)
    IN  IF t.p_changed
        THEN [t EXCEPT !.x_changed = TRUE, !.p_changed = FALSE, !.cursor = 0]
        ELSE IF t.loop = "solve"
        THEN [t EXCEPT !.changed = t.x_changed, !.pc = "while"]
        ELSE IF one_occurrence_in \in t.solvers
        THEN StartOoi([t EXCEPT !.changed = t.x_changed \/ t.changed])
        ELSE [t EXCEPT !.changed = t.x_changed \/ t.changed, !.pc = "while"]

\* a variant in which _solve_with_solvers goes on to one_occurrence_in only
\* when single_possibility is not selected
Elif_solve_single_possibilities_x(s) ==
    LET t == ExitContext(s)
    IN  IF t.p_changed
        THEN [t EXCEPT !.x_changed = TRUE, !.p_changed = FALSE, !.cursor = 0]
        ELSE IF t.loop = "solve"
        THEN StartOoi([t EXCEPT !.changed = t.x_changed])
        ELSE [t EXCEPT !.changed = t.x_changed \/ t.changed, !.pc = "while"]

\* the pass is over: one more pass if it changed something, else
\* _solve_single_possibilities_x returns to the loop that called it
_solve_single_possibilities_x(s) ==
    LET t == ExitContext(s)
    IN  IF t.p_changed
        THEN [t EXCEPT !.x_changed = TRUE, !.p_changed = FALSE, !.cursor = 0]
        ELSE IF t.loop = "solve"
        THEN StartOoi([t EXCEPT !.changed = t.x_changed])
        ELSE IF one_occurrence_in \in t.solvers
        THEN StartOoi([t EXCEPT !.changed = t.x_changed \/ t.changed])
        ELSE [t EXCEPT !.changed = t.x_changed \/ t.changed, !.pc = "while"]

(***************************************************************************)
(* _solve_only_one_occurrence_x                                            *)
(***************************************************************************)
\* Counter(chain(v.options for v in seq))
options_nums(grid, seq) ==
    Eager([num \in SET_1_TO_9 |-> Cardinality({k \in 1 .. 9 : num \in grid[seq[k]].options})])

\* the digits counted once, in the order the Counter lists them: the order
\* of first appearance along seq
RECURSIVE CountedOnceFrom(_, _, _, _)
CountedOnceFrom(grid, seq, counter, k) ==
    IF k > 9 THEN <<>>
    ELSE SortedSeq({num \in grid[seq[k]].options : counter[num] = 1})
            \o CountedOnceFrom(grid, seq, counter, k + 1)

CountedOnce(grid, seq) == CountedOnceFrom(grid, seq, options_nums(grid, seq), 1)

\* `for sq in seq: if num in sq.options and sq.value == 0`: the places of seq
\* that would take num
Takers(grid, seq, num) ==
    {k \in 1 .. 9 : num \in grid[seq[k]].options /\ grid[seq[k]].value = 0}

\* the next assignment of the running pass: at line `line`, its digits
\* `nums` still to visit; line 27: none
RECURSIVE OoiNext(_, _, _, _)
OoiNext(grid, line, nums, inside) ==
    IF line > 26 THEN [line |-> 27]
    ELSE LET seq == LineSeq(line)
             todo == IF inside THEN nums ELSE CountedOnce(grid, seq)
             hits == {j \in 1 .. Len(todo) : Takers(grid, seq, todo[j]) # {}}
         IN  IF hits = {} THEN OoiNext(grid, line + 1, <<>>, FALSE)
             ELSE LET j == SetMin(hits)
                  IN  [line |-> line, num |-> todo[j],
                       cell |-> seq[SetMin(Takers(grid, seq, todo[j]))],
                       nums |-> SubSeq(todo, j + 1, Len(todo))]

\* a variant that gives the cell its value and leaves its options
Unpinned_handle_1_occurrence_in_seq(s, n) ==
    LET leave == IF s.inside /\ n.line # s.line THEN ExitContext(s) ELSE s
        t == EnterContext(leave, one_occurrence_in, SeqDirn(n.line))
    IN  _update_pos(
            [t EXCEPT !.grid[n.cell].value = n.num,
                      !.p_changed = TRUE, !.line = n.line, !.nums = n.nums,
                      !.inside = TRUE],
            idx_to_pos(n.cell))

\* one assignment of _handle_1_occurrence_in_seq, up to the next one
_handle_1_occurrence_in_seq(s, n) ==
    LET leave == IF s.inside /\ n.line # s.line THEN ExitContext(s) ELSE s
        t == EnterContext(leave, one_occurrence_in, SeqDirn(n.line))
    IN  _update_pos(
            [t EXCEPT !.grid[n.cell].options = {n.num}, !.grid[n.cell].value = n.num,
                      !.p_changed = TRUE, !.line = n.line, !.nums = n.nums,
                      !.inside = TRUE],
            idx_to_pos(n.cell))

\* the pass is over: one more pass if it changed something, else
\* _solve_only_one_occurrence_x returns to the loop that called it
_solve_only_one_occurrence_x(s) ==
    LET t == [ExitContext(s) EXCEPT !.line = 0, !.nums = <<>>, !.inside = FALSE]
    IN  IF t.p_changed
        THEN [t EXCEPT !.x_changed = TRUE, !.p_changed = FALSE]
        ELSE [t EXCEPT !.changed = t.x_changed \/ t.changed, !.pc = "while"]

(***************************************************************************)
(* One step of a running call, and a call run to its end                   *)
(***************************************************************************)
Step(s) ==
    CASE s.pc = "_get_solvers" -> solve_filtered(s)
      [] s.pc = "pre" -> Precondition(s)
      [] s.pc = "fill" -> FillOptions(s)
      [] s.pc = "while" -> WhileChanged(s)
      [] s.pc = "sp" ->
            LET k == SpNext(s)
            IN  IF k < 81 THEN _solve_single_possibilities(s, k)
                ELSE _solve_single_possibilities_x(s)
      [] s.pc = "ooi" ->
            LET n == OoiNext(s.grid, s.line, s.nums, s.inside)
            IN  IF n.line < 27 THEN _handle_1_occurrence_in_seq(s, n)
                ELSE _solve_only_one_occurrence_x(s)
      [] s.pc = "post" -> Postcondition(s)

\* up to n steps, taken as two halves so that the evaluation nests only as
\* deep as the logarithm of n
RECURSIVE StepsOf(_, _)
StepsOf(s, n) ==
    IF s.pc = "done" \/ n = 0 THEN s
    ELSE IF n = 1 THEN Step(s)
    ELSE LET half == StepsOf(s, n \div 2)
         IN  IF half.pc = "done" THEN half ELSE StepsOf(half, n - (n \div 2))

\* steps until the call is done, n at first and twice as many each time
RECURSIVE RunFrom(_, _)
RunFrom(s, n) ==
    LET t == StepsOf(s, n)
    IN  IF t.pc = "done" THEN t ELSE RunFrom(t, 2 * n)

Run(s) == RunFrom(s, 8)

(***************************************************************************)
(* The generator's probes of a board                                       *)
(***************************************************************************)
\* a variant that probes with single_possibility
Single_is_easy(b) ==
    Run(Call_solve_filtered(New("Solver", b, TRUE), None,
                            Some({single_possibility}), Nothing)).ret

\* GeneratorBackend.is_easy: Solver(b).solve_f(include=[one_occurrence_in])
is_easy(b) ==
    Run(Call_solve_filtered(New("Solver", b, TRUE), None,
                            Some({one_occurrence_in}), Nothing)).ret

BoardClass == {"unsolvable", "easy", "hard"}

\* Solver.classify_board: unsolvable if the full solve fails, else easy if
\* the solve restricted to one_occurrence_in succeeds, else hard
Solver_classify_board(s) ==
    IF Run(Call_solve(s)).ret # Returned(TRUE) THEN "unsolvable"
    ELSE IF Run(Call_solve_with_solvers(s, {one_occurrence_in})).ret = Returned(TRUE)
    THEN "easy"
    ELSE "hard"

\* GeneratorBackend.classify_board: Solver(b, debug).classify_board()
classify_board(b, debug) == Solver_classify_board(New("Solver", b, debug))

(***************************************************************************)
(* The input boards.  A board is a reference grid with the first n cells   *)
(* of a removal order cleared (as the generator clears cells of a solved   *)
(* board), n within Spread of the order's `least`; the removal order is    *)
(* the arithmetic progression off, off + a, off + 2a, ... modulo 81.       *)
(***************************************************************************)
\* generator/backend.py:12-22
BASE_BOARD ==
    << 1,2,3,4,5,6,7,8,9,
       4,5,6,7,8,9,1,2,3,
       7,8,9,1,2,3,4,5,6,
       5,6,4,8,9,7,2,3,1,
       2,3,1,5,6,4,8,9,7,
       8,9,7,2,3,1,5,6,4,
       3,1,2,9,7,8,6,4,5,
       9,7,8,6,4,5,3,1,2,
       6,4,5,3,1,2,9,7,8 >>

\* test_solver.py:92-100
TEST_BOARD ==
    << 8,0,4,0,0,0,0,0,2,
       2,5,1,7,0,0,0,0,3,
       0,9,0,2,0,1,8,0,7,
       0,0,0,1,7,0,9,3,0,
       7,1,9,0,0,0,0,5,0,
       0,6,0,9,0,4,7,8,0,
       1,8,5,0,6,0,0,0,0,
       0,0,0,8,9,3,1,7,0,
       0,0,0,0,0,2,4,0,8 >>

\* a Python list as the function from its indices
AsBoard(list) == Eager([i \in Cells |-> list[i + 1]])

Values(grid) == Eager([i \in Cells |-> grid[i].value])

\* the grid test_solve asserts to be solved: solve() on TEST_BOARD
TEST_SOLVED == Values(Run(Call_solve(New("Solver", AsBoard(TEST_BOARD), TRUE))).grid)

\* how far past `least` the removals go
Spread == 1

\* set: a digit written over a cell of the board, <<cell, digit>>
RemovalOrders ==
    << [base |-> "BASE_BOARD", a |-> 1, off |-> 0, least |-> 0, set |-> <<>>],
       [base |-> "BASE_BOARD", a |-> 2, off |-> 0, least |-> 28, set |-> <<>>],
       [base |-> "BASE_BOARD", a |-> 4, off |-> 15, least |-> 47, set |-> <<>>],
       [base |-> "TEST_SOLVED", a |-> 4, off |-> 5, least |-> 51, set |-> <<>>],
       [base |-> "TEST_BOARD", a |-> 7, off |-> 80, least |-> 0, set |-> <<>>],
       [base |-> "BASE_BOARD", a |-> 3, off |-> 0, least |-> 6, set |-> <<>>],
       [base |-> "TEST_BOARD", a |-> 7, off |-> 80, least |-> 0, set |-> <<3, 4>>],
       [base |-> "TEST_BOARD", a |-> 7, off |-> 80, least |-> 0, set |-> <<0, 7>>],
       [base |-> "TEST_BOARD", a |-> 7, off |-> 80, least |-> 0, set |-> <<0, 5>>],
       [base |-> "TEST_BOARD", a |-> 7, off |-> 80, least |-> 0, set |-> <<0, 3>>] >>

BaseGrid(name) ==
    IF name = "BASE_BOARD" THEN AsBoard(BASE_BOARD)
    ELSE IF name = "TEST_BOARD" THEN AsBoard(TEST_BOARD)
    ELSE TEST_SOLVED

\* the board of a removal order with its first n cells cleared
Cleared(order, n) ==
    LET b == BaseGrid(order.base)
        holes == {((order.a * k) + order.off) % 81 : k \in 0 .. n - 1}
    IN  Eager([i \in Cells |->
            IF order.set # <<>> /\ i = order.set[1] THEN order.set[2]
            ELSE IF i \in holes THEN 0 ELSE b[i]])

InputBoards ==
    UNION {{Cleared(RemovalOrders[p], n) :
                n \in {m \in RemovalOrders[p].least .. RemovalOrders[p].least + Spread : m <= 81}} :
           p \in 1 .. Len(RemovalOrders)}

(***************************************************************************)
(* Reference notions the properties are stated with: the lines as sets of  *)
(* cells, and the valid completions of a board.                            *)
(***************************************************************************)
SameRow(i, j) == i \div 9 = j \div 9
SameCol(i, j) == i % 9 = j % 9
SameRegion(i, j) == /\ (i % 9) \div 3 = (j % 9) \div 3
                    /\ (i \div 9) \div 3 = (j \div 9) \div 3
Peers == Eager([i \in Cells |->
            {j \in Cells : j # i /\ (SameRow(i, j) \/ SameCol(i, j) \/ SameRegion(i, j))}])

\* no row, column or region holds the same non-zero value in two cells
NoDuplicate(b) == \A i \in Cells : b[i] # 0 => \A j \in Peers[i] : b[j] # b[i]

\* at most this many completions of a board are enumerated
MaxCompletions == 6

Candidates(b, i) == SET_1_TO_9 \ {b[j] : j \in Peers[i]}

\* the full grids that extend b without a duplicate, added to acc: the cells
\* with one candidate are filled together, and without such a cell the
\* search branches on the empty cell with the fewest candidates
RECURSIVE Extend(_, _), ExtendWith(_, _, _, _)
Extend(b, acc) ==
    IF Cardinality(acc) >= MaxCompletions THEN acc
    ELSE LET empty == {i \in Cells : b[i] = 0}
             n == Eager([i \in empty |-> Cardinality(Candidates(b, i))])
             forced == {i \in empty : n[i] = 1}
             filled == Eager([i \in Cells |->
                          IF i \in forced THEN SetMin(Candidates(b, i)) ELSE b[i]])
             least == CHOOSE c \in empty : \A d \in empty : n[c] <= n[d]
         IN  IF empty = {} THEN acc \cup {b}
             ELSE IF \E i \in empty : n[i] = 0 THEN acc
             ELSE IF forced # {}
                  THEN IF NoDuplicate(filled) THEN Extend(filled, acc) ELSE acc
             ELSE ExtendWith(b, least, Candidates(b, least), acc)
ExtendWith(b, i, digits, acc) ==
    IF digits = {} THEN acc
    ELSE LET d == SetMin(digits)
             found == Extend(Eager([b EXCEPT ![i] = d]), acc)
         IN  ExtendWith(b, i, digits \ {d}, found)

Completions(b) == IF NoDuplicate(b) THEN Extend(b, {}) ELSE {}

\* the input boards in some order, and their completions
RECURSIVE SortedBoards(_)
SortedBoards(S) ==
    IF S = {} THEN <<>>
    ELSE LET b == CHOOSE x \in S : TRUE IN <<b>> \o SortedBoards(S \ {b})

InputSeq == SortedBoards(InputBoards)

RECURSIVE CompletionsFrom(_)
CompletionsFrom(k) ==
    IF k > Len(InputSeq) THEN <<>>
    ELSE <<Completions(InputSeq[k])>> \o CompletionsFrom(k + 1)

CompletionsTable == CompletionsFrom(1)
CompletionsOf(b) == CompletionsTable[CHOOSE k \in 1 .. Len(InputSeq) : InputSeq[k] = b]

OptionalSets == {Nothing} \cup {Some(S) : S \in SUBSET SolverMethod}

\* no GeneratorBackend operation is in progress
Idle == [op |-> "idle"]

(***************************************************************************)
(* The specification                                                       *)
(***************************************************************************)
Init ==
    /\ board \in InputBoards
    /\ \E cls \in {"Solver", "TracingSolver"}, debug \in BOOLEAN :
          solver = New(cls, board, debug)
    /\ backend = Idle

CallSolve ==
    /\ solver.pc = "new"
    /\ solver' = Call_solve(solver)
    /\ UNCHANGED <<board, backend>>

CallSolveFiltered ==
    /\ solver.pc = "new"
    /\ \E default \in {None} \cup SolverFilterDefault, include \in OptionalSets,
          exclude \in OptionalSets :
          solver' = Call_solve_filtered(solver, default, include, exclude)
    /\ UNCHANGED <<board, backend>>

CallSolveWithSolvers ==
    /\ solver.pc = "new"
    /\ solver' = Call_solve_with_solvers(solver, SolverMethod)
    /\ UNCHANGED <<board, backend>>

ResolveSolvers ==
    /\ solver.pc = "_get_solvers"
    /\ solver' = solve_filtered(solver)
    /\ UNCHANGED <<board, backend>>

CheckPrecondition ==
    /\ solver.pc = "pre"
    /\ solver' = Precondition(solver)
    /\ UNCHANGED <<board, backend>>

Fill ==
    /\ solver.pc = "fill"
    /\ solver' = FillOptions(solver)
    /\ UNCHANGED <<board, backend>>

LoopHead ==
    /\ solver.pc = "while"
    /\ solver' = WhileChanged(solver)
    /\ UNCHANGED <<board, backend>>

SinglePossibilityAssign ==
    /\ solver.pc = "sp"
    /\ LET k == SpNext(solver)
       IN  k < 81 /\ solver' = _solve_single_possibilities(solver, k)
    /\ UNCHANGED <<board, backend>>

SinglePossibilityPassEnd ==
    /\ solver.pc = "sp"
    /\ SpNext(solver) = 81
    /\ solver' = _solve_single_possibilities_x(solver)
    /\ UNCHANGED <<board, backend>>

OneOccurrenceAssign ==
    /\ solver.pc = "ooi"
    /\ LET n == OoiNext(solver.grid, solver.line, solver.nums, solver.inside)
       IN  n.line < 27 /\ solver' = _handle_1_occurrence_in_seq(solver, n)
    /\ UNCHANGED <<board, backend>>

OneOccurrencePassEnd ==
    /\ solver.pc = "ooi"
    /\ OoiNext(solver.grid, solver.line, solver.nums, solver.inside).line = 27
    /\ solver' = _solve_only_one_occurrence_x(solver)
    /\ UNCHANGED <<board, backend>>

CheckPostcondition ==
    /\ solver.pc = "post"
    /\ solver' = Postcondition(solver)
    /\ UNCHANGED <<board, backend>>

Next ==
    \/ CallSolve
    \/ CallSolveFiltered
    \/ CallSolveWithSolvers
    \/ ResolveSolvers
    \/ CheckPrecondition
    \/ Fill
    \/ LoopHead
    \/ SinglePossibilityAssign
    \/ SinglePossibilityPassEnd
    \/ OneOccurrenceAssign
    \/ OneOccurrencePassEnd
    \/ CheckPostcondition

Spec == Init /\ [][Next]_vars

\* the call is made and runs: a Solver is used by one thread, which goes on
\* to the next statement until the call returns or raises.  This is weak
\* fairness of Next with its enabling condition written out: a step is
\* possible exactly while the call has not ended.
SpecLive == Spec /\ ([]<>(solver.pc = "done") \/ []<><<Next>>_vars)

(***************************************************************************)
(* Board objects (board.py).  A variable of the program holds a reference  *)
(* to a Board object; heap maps the references in use to the objects'      *)
(* grids.  The module global BASE_BOARD holds the reference BaseRef.       *)
(***************************************************************************)
BaseRef == 0

NewRef(heap) == SetMin({n \in 0 .. Cardinality(DOMAIN heap) : n \notin DOMAIN heap})

\* Board(grid): a new object
Board(heap, grid) ==
    LET new == NewRef(heap)
    IN  [heap |-> Eager(heap @@ (new :> grid)), ref |-> new]

\* a variant that hands back the object itself
Aliasing_copy(heap, ref) == [heap |-> heap, ref |-> ref]

\* Board.copy: Board(self.grid.copy())
Board_copy(heap, ref) == Board(heap, heap[ref])

\* Board.__setitem__ with an int key
Board_setitem(heap, ref, key, value) ==
    Eager([heap EXCEPT ![ref] = Eager([@ EXCEPT ![key] = value])])

\* the objects a set of references keeps alive
Live(heap, refs) == Eager([r \in refs \cap DOMAIN heap |-> heap[r]])

\* the heap of a process that has imported generator/backend.py
Imported == Eager(BaseRef :> AsBoard(BASE_BOARD))

(***************************************************************************)
(* GeneratorBackend: the probes of one board                               *)
(***************************************************************************)
\* GeneratorBackend.is_solvable: Solver(board).solve(), on the values of
\* the board (Solver.__init__ builds its own squares)
is_solvable(grid) == Run(Call_solve(New("Solver", grid, TRUE))).ret

\* the outcome of a call as the outcome of a function that may also
\* return None
Optional(ret) == IF ret.kind = "return" THEN Returned(Some(ret.value)) ELSE ret

\* a variant that asks about the board as it is
Unremoved_can_remove_number(heap, ref, location) ==
    IF heap[ref][location] = 0 THEN [heap |-> heap, ret |-> Returned(Nothing)]
    ELSE [heap |-> heap, ret |-> Optional(is_solvable(heap[ref]))]

\* GeneratorBackend.can_remove_number
can_remove_number(heap, ref, location) ==
    IF heap[ref][location] = 0 THEN [heap |-> heap, ret |-> Returned(Nothing)]
    ELSE LET board_copy == Board_copy(heap, ref)
             cleared == Board_setitem(board_copy.heap, board_copy.ref, location, 0)
         IN  [heap |-> cleared, ret |-> Optional(is_solvable(cleared[board_copy.ref]))]

\* GeneratorBackend.solve_board: (solvable, Board of the solver's values)
solve_board(heap, ref) ==
    LET s == Run(Call_solve(New("Solver", heap[ref], TRUE)))
        result == Board(heap, Values(s.grid))
    IN  IF s.ret.kind = "raise" THEN [heap |-> heap, ret |-> s.ret]
        ELSE [heap |-> result.heap, ret |-> Returned(<<s.ret.value, result.ref>>)]

\* the boards the probes are tried on: a board that the solver cannot
\* finish once cell 15 is cleared as well, and a full board with two 2s in
\* its first row
Range(seq) == {seq[k] : k \in 1 .. Len(seq)}

Without(grid, holes) == Eager([i \in Cells |-> IF i \in holes THEN 0 ELSE grid[i]])

ProbeBoards ==
    { Without(AsBoard(BASE_BOARD), {0, 3, 6, 9, 12}),
      Eager([AsBoard(BASE_BOARD) EXCEPT ![0] = 2]) }

\* the cells can_remove_number is asked about on its own
ProbeCells == {0, 1, 2, 9, 15, 16, 40, 80}

\* a caller holding one board, before it calls a probe
InitProbe ==
    /\ board = AsBoard(BASE_BOARD)
    /\ solver = New("Solver", board, TRUE)
    /\ \E grid \in ProbeBoards :
          LET arg == Board(Imported, grid)
          IN  backend = [op |-> "probe", pc |-> "ready", heap |-> arg.heap,
                         board |-> arg.ref, before |-> grid]

\* the caller after the call: what it called, what came back, and the heap
\* as far as BASE_BOARD, the caller's board and the result keep it alive
Probed(g, call, location, result, kept) ==
    [op |-> "probe", pc |-> "done", call |-> call, location |-> location,
     ret |-> result.ret, board |-> g.board, before |-> g.before,
     heap |-> Live(result.heap, {BaseRef, g.board} \cup kept)]

Probe_solve_board(g) ==
    LET result == solve_board(g.heap, g.board)
    IN  Probed(g, "solve_board", None, result,
               IF result.ret.kind = "return" THEN {result.ret.value[2]} ELSE {})

\* get_removable_numbers: the next entry of the list comprehension
get_removable_numbers(g) ==
    LET result == can_remove_number(g.heap, g.board, Len(g.list))
    IN  IF result.ret.kind = "raise"
        THEN Probed(g, "get_removable_numbers", None, result, {})
        ELSE [g EXCEPT !.heap = Live(result.heap, {BaseRef, g.board}),
                       !.list = Append(@, result.ret.value)]

IsSolvable ==
    /\ backend.op = "probe" /\ backend.pc = "ready"
    /\ backend' = Probed(backend, "is_solvable", None,
                         [heap |-> backend.heap,
                          ret |-> is_solvable(backend.heap[backend.board])], {})
    /\ UNCHANGED <<board, solver>>

CanRemoveNumber ==
    /\ backend.op = "probe" /\ backend.pc = "ready"
    /\ \E location \in ProbeCells :
          backend' = Probed(backend, "can_remove_number", location,
                            can_remove_number(backend.heap, backend.board, location), {})
    /\ UNCHANGED <<board, solver>>

SolveBoard ==
    /\ backend.op = "probe" /\ backend.pc = "ready"
    /\ backend' = Probe_solve_board(backend)
    /\ UNCHANGED <<board, solver>>

ClassifyBoard ==
    /\ backend.op = "probe" /\ backend.pc = "ready"
    /\ \E debug \in BOOLEAN :
          backend' = Probed(backend, "classify_board", debug,
                            [heap |-> backend.heap,
                             ret |-> Returned(classify_board(backend.heap[backend.board],
                                                             debug))], {})
    /\ UNCHANGED <<board, solver>>

GetRemovableNumbers ==
    /\ backend.op = "probe" /\ backend.pc = "ready"
    /\ backend' = [backend EXCEPT !.pc = "list"] @@ [list |-> <<>>]
    /\ UNCHANGED <<board, solver>>

GetRemovableNumbersEntry ==
    /\ backend.op = "probe" /\ backend.pc = "list"
    /\ Len(backend.list) < 81
    /\ backend' = get_removable_numbers(backend)
    /\ UNCHANGED <<board, solver>>

GetRemovableNumbersReturn ==
    /\ backend.op = "probe" /\ backend.pc = "list"
    /\ Len(backend.list) = 81
    /\ backend' = Probed(backend, "get_removable_numbers", None,
                         [heap |-> backend.heap, ret |-> Returned(backend.list)], {})
    /\ UNCHANGED <<board, solver>>

NextProbe ==
    \/ IsSolvable
    \/ CanRemoveNumber
    \/ SolveBoard
    \/ ClassifyBoard
    \/ GetRemovableNumbers
    \/ GetRemovableNumbersEntry
    \/ GetRemovableNumbersReturn

SpecProbe == InitProbe /\ [][NextProbe]_vars

(***************************************************************************)
(* GeneratorBackend.shuffled_board / generate_random_board.  r.shuffle is  *)
(* a choice among orders; a call is the record of its variables.           *)
(***************************************************************************)
\* the orders r.shuffle can leave [0, 1, 2] in
Perms3 == { <<0, 1, 2>>, <<0, 2, 1>>, <<1, 0, 2>>, <<1, 2, 0>>, <<2, 0, 1>>, <<2, 1, 0>> }

\* the orders of [[0, 1, 2], [3, 4, 5], [6, 7, 8]] and of [1 .. 9] that are
\* tried
RegionShuffles ==
    { << <<0, 1, 2>>, <<3, 4, 5>>, <<6, 7, 8>> >>,
      << <<3, 4, 5>>, <<0, 1, 2>>, <<6, 7, 8>> >> }

NumberShuffles == { <<1, 2, 3, 4, 5, 6, 7, 8, 9>>, <<2, 3, 1, 4, 5, 6, 7, 9, 8>> }

\* [item for sublist in nested for item in sublist]
Flat(nested) == nested[1] \o nested[2] \o nested[3]

\* new_board = board.copy(), then new_board[to] = board[from] for the pairs
\* <<to, from>> of tuple keys (Board.__getitem__ / __setitem__ index a
\* tuple key by pos_to_idx)
Moved(heap, ref, moves) ==
    LET new_board == Board_copy(heap, ref)
        grid == Eager([i \in Cells |->
                    IF \E m \in moves : pos_to_idx(m[1]) = i
                    THEN heap[ref][pos_to_idx((CHOOSE m \in moves : pos_to_idx(m[1]) = i)[2])]
                    ELSE new_board.heap[new_board.ref][i]])
    IN  [heap |-> Eager([new_board.heap EXCEPT ![new_board.ref] = grid]),
         ref |-> new_board.ref]

\* a variant that leaves the last row where it was
Short_with_x_col_shuffled(heap, ref, x0, new_cols) ==
    Moved(heap, ref, {<< <<x0 + new_cols[k], y>>, <<x0 + (k - 1), y>> >> :
                          k \in 1 .. Len(new_cols), y \in 0 .. 7})

\* new_board[new_x, y] = board[old_x, y]
_with_x_col_shuffled(heap, ref, x0, new_cols) ==
    Moved(heap, ref, {<< <<x0 + new_cols[k], y>>, <<x0 + (k - 1), y>> >> :
                          k \in 1 .. Len(new_cols), y \in TUPLE_RANGE9})

\* new_board[new_y, x] = board[old_y, x]
_with_y_row_shuffled(heap, ref, y0, new_rows) ==
    Moved(heap, ref, {<< <<y0 + new_rows[k], x>>, <<y0 + (k - 1), x>> >> :
                          k \in 1 .. Len(new_rows), x \in TUPLE_RANGE9})

\* Board([0 if board[i] == 0 else old_to_new_nums[board[i] - 1] ...])
_shuffled_numbers(heap, ref, old_to_new_nums) ==
    Board(heap, Eager([i \in Cells |->
                    IF heap[ref][i] = 0 THEN 0 ELSE old_to_new_nums[heap[ref][i]]]))

\* `board = step(board, ...)` in shuffled_board: the variable takes the
\* result, `last` keeps what the step was given
Rebound(g, shuffled, step, at, order, pc, k) ==
    [g EXCEPT !.heap = Live(shuffled.heap, {BaseRef, g.arg, shuffled.ref}),
              !.board = shuffled.ref, !.pc = pc, !.k = k,
              !.last = [step |-> step, at |-> at, order |-> order,
                        before |-> g.heap[g.board]]]

\* shuffled_board(board, r) called
Call_shuffled_board(heap, ref) ==
    [op |-> "shuffled_board", pc |-> "copy", heap |-> heap, arg |-> ref,
     board |-> ref, k |-> 0, before |-> heap[ref], ret |-> Running,
     last |-> [step |-> None]]

\* board = board.copy()
ShuffledCopy(g) ==
    LET copy == Board_copy(g.heap, g.board)
    IN  [g EXCEPT !.heap = copy.heap, !.board = copy.ref, !.pc = "x_cols"]

_shuffled_x_cols_in_x_region(g, new_cols) ==
    Rebound(g, _with_x_col_shuffled(g.heap, g.board, g.k * 3, new_cols),
            "x_cols_in_x_region", g.k * 3, new_cols,
            IF g.k = 2 THEN "y_rows" ELSE "x_cols", (g.k + 1) % 3)

_shuffled_y_rows_in_y_region(g, new_rows) ==
    Rebound(g, _with_y_row_shuffled(g.heap, g.board, g.k * 3, new_rows),
            "y_rows_in_y_region", g.k * 3, new_rows,
            IF g.k = 2 THEN "x_regions" ELSE "y_rows", (g.k + 1) % 3)

_shuffled_x_region_cols(g, new_cols_nested) ==
    Rebound(g, _with_x_col_shuffled(g.heap, g.board, 0, Flat(new_cols_nested)),
            "x_region_cols", 0, Flat(new_cols_nested), "y_regions", 0)

_shuffled_y_region_rows(g, new_rows_nested) ==
    Rebound(g, _with_y_row_shuffled(g.heap, g.board, 0, Flat(new_rows_nested)),
            "y_region_rows", 0, Flat(new_rows_nested), "numbers", 0)

\* board = self._shuffled_numbers(board, r); return board
ShuffledNumbers(g, old_to_new_nums) ==
    LET done == Rebound(g, _shuffled_numbers(g.heap, g.board, old_to_new_nums),
                        "numbers", 0, old_to_new_nums, "done", 0)
    IN  [done EXCEPT !.ret = Returned(done.board)]

\* generate_random_board(r): shuffled_board(BASE_BOARD, r)
InitShuffle ==
    /\ board = AsBoard(BASE_BOARD)
    /\ solver = New("Solver", board, TRUE)
    /\ backend = Call_shuffled_board(Imported, BaseRef)

ShuffledBoardCopy ==
    /\ backend.op = "shuffled_board" /\ backend.pc = "copy"
    /\ backend' = ShuffledCopy(backend)
    /\ UNCHANGED <<board, solver>>

ShuffledXColsInXRegion ==
    /\ backend.op = "shuffled_board" /\ backend.pc = "x_cols"
    /\ \E new_cols \in Perms3 : backend' = _shuffled_x_cols_in_x_region(backend, new_cols)
    /\ UNCHANGED <<board, solver>>

ShuffledYRowsInYRegion ==
    /\ backend.op = "shuffled_board" /\ backend.pc = "y_rows"
    /\ \E new_rows \in Perms3 : backend' = _shuffled_y_rows_in_y_region(backend, new_rows)
    /\ UNCHANGED <<board, solver>>

ShuffledXRegionCols ==
    /\ backend.op = "shuffled_board" /\ backend.pc = "x_regions"
    /\ \E nested \in RegionShuffles : backend' = _shuffled_x_region_cols(backend, nested)
    /\ UNCHANGED <<board, solver>>

ShuffledYRegionRows ==
    /\ backend.op = "shuffled_board" /\ backend.pc = "y_regions"
    /\ \E nested \in RegionShuffles : backend' = _shuffled_y_region_rows(backend, nested)
    /\ UNCHANGED <<board, solver>>

ShuffledNumbersReturn ==
    /\ backend.op = "shuffled_board" /\ backend.pc = "numbers"
    /\ \E nums \in NumberShuffles : backend' = ShuffledNumbers(backend, nums)
    /\ UNCHANGED <<board, solver>>

NextShuffle ==
    \/ ShuffledBoardCopy
    \/ ShuffledXColsInXRegion
    \/ ShuffledYRowsInYRegion
    \/ ShuffledXRegionCols
    \/ ShuffledYRegionRows
    \/ ShuffledNumbersReturn

SpecShuffle == InitShuffle /\ [][NextShuffle]_vars

\* shuffled_board run to its return on the orders c that r.shuffle gives
shuffled_board(heap, ref, c) ==
    LET copied == ShuffledCopy(Call_shuffled_board(heap, ref))
        x1 == _shuffled_x_cols_in_x_region(copied, c.x_cols[1])
        x2 == _shuffled_x_cols_in_x_region(x1, c.x_cols[2])
        x3 == _shuffled_x_cols_in_x_region(x2, c.x_cols[3])
        y1 == _shuffled_y_rows_in_y_region(x3, c.y_rows[1])
        y2 == _shuffled_y_rows_in_y_region(y1, c.y_rows[2])
        y3 == _shuffled_y_rows_in_y_region(y2, c.y_rows[3])
        xr == _shuffled_x_region_cols(y3, c.x_regions)
        yr == _shuffled_y_region_rows(xr, c.y_regions)
        done == ShuffledNumbers(yr, c.numbers)
    IN  [heap |-> Live(done.heap, DOMAIN heap \cup {done.board}), ref |-> done.board]

generate_random_board(heap, c) == shuffled_board(heap, BaseRef, c)

(***************************************************************************)
(* GeneratorBackend._find_boards_matching                                  *)
(***************************************************************************)
\* what r gives generate_random_board in the trials that are tried: the
\* orders of the three column steps and the digits; the other steps get
\* the orders that change nothing
Drawn(x_cols, numbers) ==
    [x_cols |-> x_cols, y_rows |-> << <<0, 1, 2>>, <<0, 1, 2>>, <<0, 1, 2>> >>,
     x_regions |-> << <<0, 1, 2>>, <<3, 4, 5>>, <<6, 7, 8>> >>,
     y_regions |-> << <<0, 1, 2>>, <<3, 4, 5>>, <<6, 7, 8>> >>,
     numbers |-> numbers]

Shuffles ==
    { Drawn(<< <<0, 1, 2>>, <<0, 1, 2>>, <<0, 1, 2>> >>, <<1, 2, 3, 4, 5, 6, 7, 8, 9>>),
      Drawn(<< <<0, 1, 2>>, <<0, 1, 2>>, <<0, 1, 2>> >>, <<2, 3, 1, 4, 5, 6, 7, 9, 8>>),
      Drawn(<< <<0, 1, 2>>, <<1, 0, 2>>, <<1, 0, 2>> >>, <<1, 2, 3, 4, 5, 6, 7, 8, 9>>),
      Drawn(<< <<0, 1, 2>>, <<0, 1, 2>>, <<1, 0, 2>> >>, <<1, 2, 3, 4, 5, 6, 7, 8, 9>>) }

\* the arguments that are tried
RemovalLists == { <<0, 3, 6, 9, 12, 15, 1, 10>>, <<>> }
WantMins == {0, 6}
MaxStopAfter == 3
ProgressSettings == {0, 2}

\* `if not self.is_solvable(rand_board)`
Unsolvable(grid) == is_solvable(grid) # Returned(TRUE)

RECURSIVE Removals(_, _, _)

\* a variant that leaves the cell cleared
Unrestored_removals(grid, removal_order, rm_i) ==
    IF rm_i >= Len(removal_order)
    THEN [passed |-> TRUE, last_i_solvable |-> Len(removal_order) - 1, grid |-> grid]
    ELSE LET cleared == Without(grid, {removal_order[rm_i + 1]})
         IN  IF Unsolvable(cleared)
             THEN [passed |-> TRUE, last_i_solvable |-> rm_i - 1, grid |-> cleared]
             ELSE Then(cleared, Removals(cleared, removal_order, rm_i + 1))

\* the loop over removal_order[want_min:] from index rm_i on
Removals(grid, removal_order, rm_i) ==
    IF rm_i >= Len(removal_order)
    THEN [passed |-> TRUE, last_i_solvable |-> Len(removal_order) - 1, grid |-> grid]
    ELSE LET cleared == Without(grid, {removal_order[rm_i + 1]})
         IN  IF Unsolvable(cleared)
             THEN [passed |-> TRUE, last_i_solvable |-> rm_i - 1, grid |-> grid]
             ELSE Then(cleared, Removals(cleared, removal_order, rm_i + 1))

\* a variant that goes on to the loop whatever is_solvable says of the board
\* with the first want_min cells cleared
Ungated_Trial(rand_board, removal_order, want_min) ==
    Removals(Without(rand_board, {removal_order[k] : k \in 1 .. want_min}),
             removal_order, want_min)

\* one trial on the board generate_random_board returns: the first
\* want_min removals, the gate, and the loop
Trial(rand_board, removal_order, want_min) ==
    LET least == Without(rand_board, {removal_order[k] : k \in 1 .. want_min})
    IN  IF Unsolvable(least) THEN [passed |-> FALSE, grid |-> least]
        ELSE Removals(least, removal_order, want_min)

\* the trial of each board that can be drawn (a trial depends on the call
\* only through removal_order and want_min)
Trials(removal_order, want_min) ==
    Eager([c \in Shuffles |->
        LET rand_board == generate_random_board(Imported, c)
        IN  Trial(rand_board.heap[rand_board.ref], removal_order, want_min)
                @@ [base |-> rand_board.heap[BaseRef]]])

\* _find_boards_matching(removal_order, want_min, stop_after, r,
\* print_progress) called: `drawn` is what r has given so far, `printed` the
\* lines of progress
Call_find_boards_matching(heap, removal_order, want_min, stop_after, print_progress, trials) ==
    [op |-> "_find_boards_matching", pc |-> "assert", heap |-> heap,
     removal_order |-> removal_order, want_min |-> want_min,
     stop_after |-> stop_after, print_progress |-> print_progress,
     trials |-> trials, i |-> 0, best_board |-> Nothing, best_i |-> 0,
     drawn |-> <<>>, printed |-> <<>>, ret |-> Running]

\* assert len(removal_order) >= want_min
MatchingAssert(g) ==
    IF Len(g.removal_order) >= g.want_min THEN [g EXCEPT !.pc = "for"]
    ELSE [g EXCEPT !.pc = "done", !.ret = Raised(AssertionError)]

\* a variant that takes a later trial of the same prefix when progress is
\* printed
Printing_better(g, last_i_solvable) ==
    \/ g.best_board = Nothing
    \/ last_i_solvable > g.best_i
    \/ g.print_progress # 0 /\ last_i_solvable = g.best_i

\* a variant that takes a later trial of the same prefix as well
Latest_better(g, last_i_solvable) == g.best_board = Nothing \/ last_i_solvable >= g.best_i

\* `if best_board is None or last_i_solvable > best_i`
Better(g, last_i_solvable) == g.best_board = Nothing \/ last_i_solvable > g.best_i

\* one pass of `for i in range(stop_after)` on the board drawn with c
MatchingTrial(g, c) ==
    LET t == g.trials[c]
        rand_board == Board([g.heap EXCEPT ![BaseRef] = t.base], t.grid)
        shown == IF g.print_progress # 0 /\ g.i # 0 /\ g.i % g.print_progress = 0
                 THEN Append(g.printed, <<g.i, g.stop_after>>) ELSE g.printed
        tried == [g EXCEPT !.printed = shown, !.drawn = Append(@, c), !.i = @ + 1]
        kept == IF t.passed /\ Better(g, t.last_i_solvable)
                THEN [tried EXCEPT !.best_i = t.last_i_solvable,
                                   !.best_board = Some(rand_board.ref),
                                   !.heap = Live(rand_board.heap, {BaseRef, rand_board.ref})]
                ELSE [tried EXCEPT !.heap = Live(rand_board.heap, {BaseRef} \cup Range(g.best_board))]
    IN  IF t.passed /\ kept.best_i >= Len(g.removal_order) - 1
        THEN IF kept.best_i = Len(g.removal_order) - 1
             THEN [kept EXCEPT !.pc = "done",
                               !.ret = Returned(<<TRUE, kept.best_i, kept.best_board>>)]
             ELSE [kept EXCEPT !.pc = "done", !.ret = Raised(AssertionError)]
        ELSE kept

\* return False, best_i, best_board
MatchingExhausted(g) ==
    [g EXCEPT !.pc = "done", !.ret = Returned(<<FALSE, g.best_i, g.best_board>>)]

\* the call run to its return on the boards r gives, in turn
RECURSIVE _find_boards_matching(_, _)
_find_boards_matching(g, r) ==
    IF g.pc = "done" THEN g
    ELSE IF g.pc = "assert" THEN _find_boards_matching(MatchingAssert(g), r)
    ELSE IF g.i >= g.stop_after \/ r = <<>> THEN MatchingExhausted(g)
    ELSE LET tried == MatchingTrial(g, Head(r))
         IN  Then(tried, _find_boards_matching(tried, Tail(r)))

\* the calls that are tried, in a process whose heap is `heap`
MatchingCalls(heap) ==
    UNION { LET trials == IF Len(removal_order) >= want_min
                          THEN Trials(removal_order, want_min) ELSE <<>>
            IN  { Call_find_boards_matching(heap, removal_order, want_min,
                                            stop_after, print_progress, trials) :
                      stop_after \in 0 .. MaxStopAfter,
                      print_progress \in ProgressSettings } :
            removal_order \in RemovalLists, want_min \in WantMins }

InitMatching ==
    /\ board = AsBoard(BASE_BOARD)
    /\ solver = New("Solver", board, TRUE)
    /\ backend \in MatchingCalls(Imported)

FindBoardsMatchingAssert ==
    /\ backend.op = "_find_boards_matching" /\ backend.pc = "assert"
    /\ backend' = MatchingAssert(backend)
    /\ UNCHANGED <<board, solver>>

FindBoardsMatchingTrial ==
    /\ backend.op = "_find_boards_matching" /\ backend.pc = "for"
    /\ backend.i < backend.stop_after
    /\ \E c \in Shuffles : backend' = MatchingTrial(backend, c)
    /\ UNCHANGED <<board, solver>>

FindBoardsMatchingExhausted ==
    /\ backend.op = "_find_boards_matching" /\ backend.pc = "for"
    /\ backend.i >= backend.stop_after
    /\ backend' = MatchingExhausted(backend)
    /\ UNCHANGED <<board, solver>>

NextMatching ==
    \/ FindBoardsMatchingAssert
    \/ FindBoardsMatchingTrial
    \/ FindBoardsMatchingExhausted

SpecMatching == InitMatching /\ [][NextMatching]_vars

\* --------------------------------------------------------------------------
\* GeneratorBackend._find_boards_matching_parallel: `cores` pool processes
\* each run _find_boards_matching on a random stream of their own; the
\* parent collects the results in the order of submission and merges them
\* --------------------------------------------------------------------------

MaxCores == 3

\* what a worker's return value is in the parent: the triple, its Board
\* pickled and rebuilt (a Board of the same grid, or None)
Pickled(g) ==
    IF g.ret.kind # "return" THEN g.ret
    ELSE LET v == g.ret.value
         IN  Returned(<<v[1], v[2],
                        IF v[3] = Nothing THEN Nothing ELSE Some(g.heap[v[3][1]])>>)

\* the indices of a list of results whose board is not None
Qualifying(results) == {k \in 1 .. Len(results) : results[k][3] # Nothing}

\* a variant whose max() keeps the last of the largest
Last_merge_proc_results(results) ==
    IF Qualifying(results) = {} THEN <<FALSE, 0, Nothing>>
    ELSE results[CHOOSE k \in Qualifying(results) :
                     \A j \in Qualifying(results) :
                         /\ results[j][2] <= results[k][2]
                         /\ j > k => results[j][2] < results[k][2]]

\* max([r for r in results if r[2] is not None], key=largest_i,
\*     default=(False, 0, None)): max() returns the first of the largest
_merge_proc_results(results) ==
    IF Qualifying(results) = {} THEN <<FALSE, 0, Nothing>>
    ELSE results[CHOOSE k \in Qualifying(results) :
                     \A j \in Qualifying(results) :
                         /\ results[j][2] <= results[k][2]
                         /\ j < k => results[j][2] < results[k][2]]

\* _find_boards_matching_parallel(removal_order, cores, want_min,
\* stop_after, print_progress) called
Call_find_boards_matching_parallel(removal_order, cores, want_min, stop_after, print_progress, trials) ==
    [op |-> "_find_boards_matching_parallel", pc |-> "apply_async",
     removal_order |-> removal_order, cores |-> cores, want_min |-> want_min,
     stop_after |-> stop_after, print_progress |-> print_progress,
     trials |-> trials, workers |-> <<>>, finished |-> <<>>,
     result_list |-> <<>>, ret |-> Running]

\* the arguments of the i-th apply_async (i from 0), r being the stream of
\* random.Random(sys_rand.getrandbits(32))
WorkerArgs(g, i, r) ==
    [stop_after |-> g.stop_after \div g.cores,
     print_progress |-> IF i = 0 THEN g.print_progress ELSE 0,
     r |-> r, result |-> Nothing]

\* async_result_list = [ppool.apply_async(...) for i in range(cores)]
ParallelApplyAsync(g, rs) ==
    [g EXCEPT !.pc = "get",
              !.workers = [k \in 1 .. g.cores |-> WorkerArgs(g, k - 1, rs[k])]]

\* worker process k runs its _find_boards_matching to the end
WorkerRun(g, k) ==
    LET w == g.workers[k]
        call == Call_find_boards_matching(Imported, g.removal_order, g.want_min,
                                          w.stop_after, w.print_progress, g.trials)
    IN  [g EXCEPT !.workers[k].result = Some(Pickled(_find_boards_matching(call, w.r))),
                  !.finished = Append(@, k)]

\* the next ar.get() of `[ar.get() for ar in async_result_list]`, which
\* re-raises what the worker raised
ParallelGet(g) ==
    LET res == g.workers[Len(g.result_list) + 1].result[1]
    IN  IF res.kind = "raise" THEN [g EXCEPT !.pc = "done", !.ret = res]
        ELSE [g EXCEPT !.result_list = Append(@, res.value)]

\* return self._merge_proc_results(result_list)
ParallelMerge(g) ==
    [g EXCEPT !.pc = "done", !.ret = Returned(_merge_proc_results(g.result_list))]

\* the streams of n draws
Streams(n) == [1 .. n -> Shuffles]

\* the parallel calls that are tried, on up to max_cores processes
ParallelCalls(max_cores) ==
    UNION { LET trials == IF Len(removal_order) >= want_min
                          THEN Trials(removal_order, want_min) ELSE <<>>
            IN  { Call_find_boards_matching_parallel(removal_order, cores, want_min,
                                                     stop_after, print_progress, trials) :
                      cores \in 1 .. max_cores,
                      stop_after \in {0, MaxStopAfter},
                      print_progress \in ProgressSettings \ {0} } :
            removal_order \in RemovalLists, want_min \in WantMins }

InitMatchingParallel ==
    /\ board = AsBoard(BASE_BOARD)
    /\ solver = New("Solver", board, TRUE)
    /\ backend \in ParallelCalls(MaxCores)

FindBoardsMatchingParallelApplyAsync ==
    /\ backend.op = "_find_boards_matching_parallel" /\ backend.pc = "apply_async"
    /\ \E rs \in [1 .. backend.cores -> Streams(backend.stop_after \div backend.cores)] :
          backend' = ParallelApplyAsync(backend, rs)
    /\ UNCHANGED <<board, solver>>

FindBoardsMatchingWorker ==
    /\ backend.op = "_find_boards_matching_parallel" /\ backend.pc = "get"
    /\ \E k \in 1 .. backend.cores :
          /\ backend.workers[k].result = Nothing
          /\ backend' = WorkerRun(backend, k)
    /\ UNCHANGED <<board, solver>>

FindBoardsMatchingParallelGet ==
    /\ backend.op = "_find_boards_matching_parallel" /\ backend.pc = "get"
    /\ Len(backend.result_list) < backend.cores
    /\ backend.workers[Len(backend.result_list) + 1].result # Nothing
    /\ backend' = ParallelGet(backend)
    /\ UNCHANGED <<board, solver>>

FindBoardsMatchingParallelMerge ==
    /\ backend.op = "_find_boards_matching_parallel" /\ backend.pc = "get"
    /\ Len(backend.result_list) = backend.cores
    /\ backend' = ParallelMerge(backend)
    /\ UNCHANGED <<board, solver>>

NextMatchingParallel ==
    \/ FindBoardsMatchingParallelApplyAsync
    \/ FindBoardsMatchingWorker
    \/ FindBoardsMatchingParallelGet
    \/ FindBoardsMatchingParallelMerge

SpecMatchingParallel == InitMatchingParallel /\ [][NextMatchingParallel]_vars

\* --------------------------------------------------------------------------
\* GeneratorBackend.find_hard_sudoku
\* --------------------------------------------------------------------------

\* what r.sample(tuple(range(81)), initial_n) gives, for the two values of
\* initial_n that are tried
HardHoles ==
    <<10, 12, 15, 17, 18, 21, 24, 25, 27, 28, 54, 55, 61, 62, 63, 64, 69, 70, 72, 73, 78>>

Samples(initial_n) ==
    IF initial_n = 8
    THEN { <<10, 12, 15, 17, 18, 21, 24, 25>>, <<27, 28, 54, 55, 61, 62, 63, 64>>,
           <<69, 70, 72, 73, 78, 10, 12, 15>>, <<69, 70, 72, 73, 78, 10, 12, 9>>,
           <<0, 3, 6, 9, 12, 15, 1, 2>> }
    ELSE { HardHoles, [HardHoles EXCEPT ![1] = 9] }

\* `for pos in rm: board[pos] = 0`
Zeroed(heap, ref, rm) == Eager([heap EXCEPT ![ref] = Without(@, Range(rm))])

\* the number of passes of `for j in range(0, 80, initial_step)`
Passes(initial_step) == (79 \div initial_step) + 1

\* the sets of cells that n samples clear between them
RECURSIVE SampledSets(_, _)
SampledSets(samples, n) ==
    IF n = 0 THEN {{}}
    ELSE LET fewer == SampledSets(samples, n - 1)
         IN  fewer \cup {u \cup Range(s) : u \in fewer, s \in samples}

\* classify_board(board, debug=False) for every board a search with these
\* samples can come to classify, each board classified once: first the
\* boards the samples give (`sampled` empty), then the boards on the way
\* back from those of them that are unsolvable
RECURSIVE ClassesFrom(_, _, _)
ClassesFrom(samples, initial_step, sampled) ==
    LET base == AsBoard(BASE_BOARD)
        passes == Passes(initial_step)
        broken == {p \in (SampledSets(samples, passes) \ {{}}) \X samples :
                      /\ sampled[Without(base, p[1])] = "easy"
                      /\ sampled[Without(base, p[1] \cup Range(p[2]))] = "unsolvable"}
        grids == IF DOMAIN sampled = {}
                 THEN {Without(base, u) : u \in SampledSets(samples, passes + 1)}
                 ELSE UNION {{Without(base, p[1] \cup {p[2][k] : k \in 1 .. n}) :
                                 n \in 1 .. Len(p[2])} : p \in broken} \ DOMAIN sampled
        classes == Eager([grid \in grids |-> classify_board(grid, FALSE)])
    IN  IF DOMAIN sampled = {} THEN ClassesFrom(samples, initial_step, classes)
        ELSE Eager(sampled @@ classes)

Classes(samples, initial_step) == ClassesFrom(samples, initial_step, <<>>)

\* find_hard_sudoku(max_tries, r, initial_n, initial_step, print_every,
\* pretty_progress) called: `printed` is what was printed, `classes` the
\* answers of classify_board and `seen` those it has given in this call
Call_find_hard_sudoku(heap, max_tries, initial_n, initial_step, print_every, pretty_progress, classes) ==
    [op |-> "find_hard_sudoku", pc |-> "for", heap |-> heap,
     max_tries |-> max_tries, initial_n |-> initial_n, initial_step |-> initial_step,
     print_every |-> print_every, pretty_progress |-> pretty_progress,
     classes |-> classes, i |-> 0, board |-> Nothing, prev |-> Nothing,
     rm_now |-> Nothing, j |-> 0, k |-> 0,
     seen |-> {}, printed |-> <<>>, ret |-> Running]

\* the objects the frame of find_hard_sudoku refers to
HardLive(heap, refs) == Live(heap, {BaseRef} \cup UNION {Range(ref) : ref \in refs})

\* on_done(); return board
HardReturn(g, heap, ret) ==
    [g EXCEPT !.pc = "done", !.heap = heap, !.ret = Returned(ret),
              !.printed = IF g.print_every # 0 /\ g.pretty_progress
                          THEN Append(@, <<"newline">>) ELSE @]

\* the progress line of trial i, if it has one
HardProgress(g) ==
    IF g.print_every # 0 /\ g.i % g.print_every = 0
    THEN IF g.pretty_progress
         THEN Append(g.printed, <<IF g.i = 0 THEN "" ELSE "\\r", g.i, g.max_tries>>)
         ELSE IF g.i # 0 THEN Append(g.printed, <<"progress", g.i, g.max_tries>>)
         ELSE g.printed
    ELSE g.printed

\* the end of a pass of `for i in range(max_tries)`
HardNextTrial(g) ==
    [g EXCEPT !.pc = "for", !.heap = HardLive(g.heap, {}), !.board = Nothing,
              !.prev = Nothing, !.rm_now = Nothing, !.j = 0, !.k = 0]

\* a pass of `for i in range(max_tries)` up to the inner loop: the board of
\* the pass is BASE_BOARD.copy() with initial_rm cleared
HardTrial(g, initial_rm) ==
    LET copied == Board_copy(g.heap, BaseRef)
        b == copied.ref
        heap == Zeroed(copied.heap, b, initial_rm)
        class == g.classes[heap[b]]
        tried == [g EXCEPT !.printed = HardProgress(g), !.i = @ + 1,
                           !.seen = @ \cup {class}]
    IN  IF class = "unsolvable" THEN HardNextTrial(tried)
        ELSE IF class = "hard" THEN HardReturn(tried, HardLive(heap, {Some(b)}), Some(b))
        ELSE LET prev == Board_copy(heap, b)
             IN  [tried EXCEPT !.pc = "loop", !.heap = prev.heap, !.board = Some(b),
                               !.prev = Some(prev.ref), !.rm_now = Nothing, !.j = 0]

\* `board = prev` after the inner loop, before the way back
HardLoadPrev(g) ==
    [g EXCEPT !.pc = "backtrack", !.board = g.prev, !.k = 1,
              !.heap = HardLive(g.heap, {g.prev})]

\* a pass of `for j in range(0, 80, initial_step)`
HardLoop(g, rm_now) ==
    LET b == g.board[1]
        heap == Zeroed(g.heap, b, rm_now)
        class == g.classes[heap[b]]
        sampled == [g EXCEPT !.heap = heap, !.rm_now = Some(rm_now),
                             !.seen = @ \cup {class}]
    IN  IF class = "hard" THEN HardReturn(sampled, HardLive(heap, {g.board}), g.board)
        ELSE IF class = "unsolvable" THEN HardLoadPrev(sampled)
        ELSE LET copied == Board_copy(heap, b)
                 kept == [sampled EXCEPT !.prev = g.board, !.board = Some(copied.ref),
                                         !.heap = HardLive(copied.heap, {g.board, Some(copied.ref)}),
                                         !.j = @ + g.initial_step]
             IN  IF kept.j < 80 THEN kept ELSE HardLoadPrev(kept)

\* a variant that returns the board the way back ends on
Settling_backtrack(g) ==
    LET b == g.board[1]
        heap == Board_setitem(g.heap, b, g.rm_now[1][g.k], 0)
        class == g.classes[heap[b]]
        cleared == [g EXCEPT !.heap = heap, !.seen = @ \cup {class}]
    IN  IF class # "easy" \/ g.k = Len(g.rm_now[1])
        THEN HardReturn(cleared, heap, g.board)
        ELSE [cleared EXCEPT !.k = @ + 1]

\* a pass of `for rm in rm_now` on the way back
HardBacktrack(g) ==
    LET b == g.board[1]
        heap == Board_setitem(g.heap, b, g.rm_now[1][g.k], 0)
        class == g.classes[heap[b]]
        cleared == [g EXCEPT !.heap = heap, !.seen = @ \cup {class}]
    IN  IF class = "hard" THEN HardReturn(cleared, heap, g.board)
        ELSE IF class = "unsolvable" \/ g.k = Len(g.rm_now[1])
        THEN HardNextTrial(cleared)
        ELSE [cleared EXCEPT !.k = @ + 1]

\* on_done(); return None
HardExhausted(g) == HardReturn(g, HardLive(g.heap, {}), Nothing)

\* the searches that are tried, in a process whose heap is `heap`
MaxTries == 2
HardCalls(heap) ==
    UNION { LET classes == Classes(Samples(shape[1]), shape[2])
            IN  { Call_find_hard_sudoku(heap, max_tries, shape[1], shape[2],
                                        progress[1], progress[2], classes) :
                      max_tries \in 0 .. MaxTries,
                      progress \in {<<0, FALSE>>, <<1, TRUE>>, <<2, FALSE>>} } :
            shape \in {<<8, 40>>, <<21, 80>>} }

InitHard ==
    /\ board = AsBoard(BASE_BOARD)
    /\ solver = New("Solver", board, TRUE)
    /\ backend \in HardCalls(Imported)

FindHardSudokuTrial ==
    /\ backend.op = "find_hard_sudoku" /\ backend.pc = "for"
    /\ backend.i < backend.max_tries
    /\ \E initial_rm \in Samples(backend.initial_n) :
          backend' = HardTrial(backend, initial_rm)
    /\ UNCHANGED <<board, solver>>

FindHardSudokuLoop ==
    /\ backend.op = "find_hard_sudoku" /\ backend.pc = "loop"
    /\ \E rm_now \in Samples(backend.initial_n) :
          backend' = HardLoop(backend, rm_now)
    /\ UNCHANGED <<board, solver>>

FindHardSudokuBacktrack ==
    /\ backend.op = "find_hard_sudoku" /\ backend.pc = "backtrack"
    /\ backend' = HardBacktrack(backend)
    /\ UNCHANGED <<board, solver>>

FindHardSudokuExhausted ==
    /\ backend.op = "find_hard_sudoku" /\ backend.pc = "for"
    /\ backend.i >= backend.max_tries
    /\ backend' = HardExhausted(backend)
    /\ UNCHANGED <<board, solver>>

NextHard ==
    \/ FindHardSudokuTrial
    \/ FindHardSudokuLoop
    \/ FindHardSudokuBacktrack
    \/ FindHardSudokuExhausted

SpecHard == InitHard /\ [][NextHard]_vars

\* the call run to its return, r giving its samples in turn and again from
\* the first when they run out; n samples have been taken
RECURSIVE find_hard_sudoku(_, _, _)
find_hard_sudoku(g, r, n) ==
    IF g.pc = "done" THEN g
    ELSE IF g.pc = "backtrack"
    THEN LET back == HardBacktrack(g)
         IN  Then(back, find_hard_sudoku(back, r, n))
    ELSE IF g.pc = "for" /\ g.i >= g.max_tries THEN HardExhausted(g)
    ELSE LET sample == r[(n % Len(r)) + 1]
             next == IF g.pc = "for" THEN HardTrial(g, sample) ELSE HardLoop(g, sample)
         IN  Then(next, find_hard_sudoku(next, r, n + 1))

\* --------------------------------------------------------------------------
\* GeneratorBackend.find_hard_sudoku_parallel: `cores` pool processes each
\* run find_hard_sudoku; the parent takes their results as they complete
\* and returns the first that is not None
\* --------------------------------------------------------------------------

\* the streams of samples a worker's random.Random may give
HardStreams ==
    { << <<10, 12, 15, 17, 18, 21, 24, 25>>, <<27, 28, 54, 55, 61, 62, 63, 64>>,
         <<69, 70, 72, 73, 78, 10, 12, 15>> >>,
      << <<10, 12, 15, 17, 18, 21, 24, 25>>, <<27, 28, 54, 55, 61, 62, 63, 64>>,
         <<69, 70, 72, 73, 78, 10, 12, 9>> >>,
      << <<10, 12, 15, 17, 18, 21, 24, 25>>, <<69, 70, 72, 73, 78, 10, 12, 9>> >> }

\* what a worker's find_hard_sudoku returns, as the parent receives it: the
\* Board pickled and rebuilt, or None
HardPickled(g) ==
    IF g.ret.kind # "return" \/ g.ret.value = Nothing THEN g.ret
    ELSE Returned(Some(g.heap[g.ret.value[1]]))

\* find_hard_sudoku_parallel(max_tries, initial_n, initial_step,
\* print_every, pretty_progress, cores) called
Call_find_hard_sudoku_parallel(max_tries, initial_n, initial_step, print_every, pretty_progress, cores, classes) ==
    [op |-> "find_hard_sudoku_parallel", pc |-> "args_list",
     max_tries |-> max_tries, initial_n |-> initial_n, initial_step |-> initial_step,
     print_every |-> print_every, pretty_progress |-> pretty_progress,
     cores |-> cores, classes |-> classes, workers |-> <<>>, completed |-> <<>>,
     taken |-> 0, printed |-> <<>>, ret |-> Running]

\* the i-th entry of args_list (i from 0), r being the stream of
\* random.Random(sys_rand.getrandbits(32))
HardWorkerArgs(g, i, r) ==
    [max_tries |-> g.max_tries \div g.cores, r |-> r,
     initial_n |-> g.initial_n, initial_step |-> g.initial_step,
     print_every |-> IF i = 0 THEN g.print_every ELSE 0,
     pretty_progress |-> g.pretty_progress, result |-> Nothing]

\* args_list built and handed to ppool.imap_unordered
HardParallelImap(g, rs) ==
    [g EXCEPT !.pc = "results_it",
              !.workers = [k \in 1 .. g.cores |-> HardWorkerArgs(g, k - 1, rs[k])]]

\* _find_hard_sudoku_worker(args) in pool process k runs to its return,
\* and its result joins those that have completed
HardWorkerRun(g, k) ==
    LET w == g.workers[k]
        call == Call_find_hard_sudoku(Imported, w.max_tries, w.initial_n, w.initial_step,
                                      w.print_every, w.pretty_progress, g.classes)
    IN  [g EXCEPT !.workers[k].result = Some(HardPickled(find_hard_sudoku(call, w.r, 0))),
                  !.completed = Append(@, k)]

\* a variant that returns the first completed result, None or not
Hasty_parallel_result(g) ==
    [g EXCEPT !.pc = "done", !.taken = @ + 1,
              !.ret = g.workers[g.completed[g.taken + 1]].result[1]]

\* a pass of `for res in results_it`: the next completed result; the pool
\* is terminated at the return
HardParallelResult(g) ==
    LET res == g.workers[g.completed[g.taken + 1]].result[1]
    IN  IF res.value # Nothing
        THEN [g EXCEPT !.pc = "done", !.taken = @ + 1, !.ret = res]
        ELSE [g EXCEPT !.taken = @ + 1]

\* every result was None: print() if progress was pretty; return None
HardParallelNone(g) ==
    [g EXCEPT !.pc = "done", !.ret = Returned(Nothing),
              !.printed = IF g.pretty_progress /\ g.print_every # 0
                          THEN Append(@, <<"newline">>) ELSE @]

\* the parallel searches that are tried, on up to max_cores processes
HardParallelCalls(max_cores) ==
    LET classes == Classes(Samples(8), 40)
    IN  { Call_find_hard_sudoku_parallel(max_tries, 8, 40, progress[1], progress[2],
                                         cores, classes) :
              max_tries \in {0, MaxTries, max_cores}, cores \in 1 .. max_cores,
              progress \in {<<0, FALSE>>, <<1, TRUE>>} }

InitHardParallel ==
    /\ board = AsBoard(BASE_BOARD)
    /\ solver = New("Solver", board, TRUE)
    /\ backend \in HardParallelCalls(MaxCores)

FindHardSudokuParallelImap ==
    /\ backend.op = "find_hard_sudoku_parallel" /\ backend.pc = "args_list"
    /\ \E rs \in [1 .. backend.cores -> HardStreams] :
          backend' = HardParallelImap(backend, rs)
    /\ UNCHANGED <<board, solver>>

FindHardSudokuWorker ==
    /\ backend.op = "find_hard_sudoku_parallel" /\ backend.pc = "results_it"
    /\ \E k \in 1 .. backend.cores :
          /\ backend.workers[k].result = Nothing
          /\ backend' = HardWorkerRun(backend, k)
    /\ UNCHANGED <<board, solver>>

FindHardSudokuParallelResult ==
    /\ backend.op = "find_hard_sudoku_parallel" /\ backend.pc = "results_it"
    /\ backend.taken < Len(backend.completed)
    /\ backend' = HardParallelResult(backend)
    /\ UNCHANGED <<board, solver>>

FindHardSudokuParallelNone ==
    /\ backend.op = "find_hard_sudoku_parallel" /\ backend.pc = "results_it"
    /\ backend.taken = backend.cores
    /\ backend' = HardParallelNone(backend)
    /\ UNCHANGED <<board, solver>>

NextHardParallel ==
    \/ FindHardSudokuParallelImap
    \/ FindHardSudokuWorker
    \/ FindHardSudokuParallelResult
    \/ FindHardSudokuParallelNone

SpecHardParallel == InitHardParallel /\ [][NextHardParallel]_vars

\* --------------------------------------------------------------------------
\* The searches of GeneratorBackend, one call at a time
\* --------------------------------------------------------------------------

InitSearch ==
    \/ InitMatching
    \/ InitMatchingParallel
    \/ InitHard
    \/ InitHardParallel

NextSearch ==
    \/ NextMatching
    \/ NextMatchingParallel
    \/ NextHard
    \/ NextHardParallel

SpecSearch == InitSearch /\ [][NextSearch]_vars

\* --------------------------------------------------------------------------
\* The operations of GeneratorBackend that are handed or make a Board, one
\* call at a time
\* --------------------------------------------------------------------------

InitBoards ==
    \/ InitProbe
    \/ InitShuffle
    \/ InitMatching
    \/ InitHard

NextBoards ==
    \/ NextProbe
    \/ NextShuffle
    \/ NextMatching
    \/ NextHard

SpecBoards == InitBoards /\ [][NextBoards]_vars


(***************************************************************************)
(* Board: the two layouts of a grid (board.py:22-35).  A Python list is a  *)
(* sequence here: list[i] is seq[i + 1].                                   *)
(***************************************************************************)
\* [v for y_list in nested for v in y_list]
RECURSIVE Flattened(_)
Flattened(nested) ==
    IF nested = <<>> THEN <<>> ELSE Head(nested) \o Flattened(Tail(nested))

\* Board.nested_to_flat
nested_to_flat(nested) ==
    IF Len(nested) = 9 /\ \A k \in 1 .. Len(nested) : Len(nested[k]) = 9
    THEN Returned(Flattened(nested))
    ELSE Raised(AssertionError)

\* Board.flat_to_nested
flat_to_nested(flat) ==
    IF Len(flat) = 81
    THEN Returned([x \in 1 .. 9 |->
                     [y \in 1 .. 9 |-> flat[pos_to_idx(<<x - 1, y - 1>>) + 1]]])
    ELSE Raised(AssertionError)

\* Board.swap_rows, also bound to to_printable_order
swap_rows(nested) == [y \in 1 .. 9 |-> [x \in 1 .. 9 |-> nested[x][y]]]

\* how many conversions a caller chains
MaxCalls == 3

\* the lists handed to the conversions: entry (a, b) of a nested list, or
\* entry a + 9b of a flat one, is (k*a + m*b) % 10
Weights == (0 .. 3) \X (0 .. 3)
NestedOf(w, rows) ==
    [a \in 1 .. rows |-> [b \in 1 .. 9 |-> ((w[1] * (a - 1)) + (w[2] * (b - 1))) % 10]]
FlatOf(w, n) ==
    [i \in 1 .. n |-> ((w[1] * ((i - 1) % 9)) + (w[2] * ((i - 1) \div 9))) % 10]
LayoutInputs ==
    {[shape |-> "nested", value |-> NestedOf(w, 9)] : w \in Weights}
      \cup {[shape |-> "nested", value |-> NestedOf(<<1, 2>>, 8)]}
      \cup {[shape |-> "flat", value |-> FlatOf(w, 81)] : w \in Weights}
      \cup {[shape |-> "flat", value |-> v] : v \in {BASE_BOARD, TEST_BOARD, FlatOf(<<1, 2>>, 80)}}

InitLayout ==
    /\ board = AsBoard(BASE_BOARD)
    /\ solver = New("Solver", board, TRUE)
    /\ \E in \in LayoutInputs :
          backend = [op |-> "layout", shape |-> in.shape, input |-> in.value,
                     value |-> in.value, calls |-> <<>>]

\* the caller after a conversion
Converted(g, call, shape, ret) ==
    IF ret.kind = "raise"
    THEN [g EXCEPT !.shape = "raised", !.calls = Append(@, call)]
    ELSE [g EXCEPT !.shape = shape, !.value = ret.value, !.calls = Append(@, call)]

NestedToFlat ==
    /\ backend.op = "layout"
    /\ backend.shape = "nested"
    /\ Len(backend.calls) < MaxCalls
    /\ backend' = Converted(backend, "nested_to_flat", "flat", nested_to_flat(backend.value))
    /\ UNCHANGED <<board, solver>>

FlatToNested ==
    /\ backend.op = "layout"
    /\ backend.shape = "flat"
    /\ Len(backend.calls) < MaxCalls
    /\ backend' = Converted(backend, "flat_to_nested", "nested", flat_to_nested(backend.value))
    /\ UNCHANGED <<board, solver>>

SwapRows ==
    /\ backend.op = "layout"
    /\ backend.shape = "nested"
    /\ Len(backend.value) = 9
    /\ Len(backend.calls) < MaxCalls
    /\ backend' = Converted(backend, "swap_rows", "nested", Returned(swap_rows(backend.value)))
    /\ UNCHANGED <<board, solver>>

NextLayout ==
    \/ NestedToFlat
    \/ FlatToNested
    \/ SwapRows

SpecLayout == InitLayout /\ [][NextLayout]_vars

(***************************************************************************)
(* Board: construction, item assignment and copy as a caller may use them  *)
(* (board.py:14-20, 37-49).  A grid in the heap is a function on 0 .. n-1. *)
(***************************************************************************)
TypeError == "TypeError"
IndexError == "IndexError"

\* the list object with the items of a sequence
AsList(seq) == Eager([i \in 0 .. Len(seq) - 1 |-> seq[i + 1]])
ListLen(list) == Cardinality(DOMAIN list)

\* Board.__post_init__ on an argument of a type with items
Board_post_init(type, grid) ==
    IF type \notin {"list", "UserList", "MutableSequence"}
    THEN Raised(TypeError)
    ELSE IF ListLen(grid) # 81
    THEN Raised(ValueError)
    ELSE IF ~ \A i \in DOMAIN grid : grid[i] \in 0 .. 9
    THEN Raised(ValueError)
    ELSE Returned(None)

\* Board(grid) with the dataclass __init__: the object exists for the caller
\* only when __post_init__ returns
Board_init(heap, type, grid) ==
    LET checked == Board_post_init(type, grid)
        made == Board(heap, grid)
    IN  IF checked.kind = "raise"
        THEN [heap |-> heap, ret |-> checked]
        ELSE [heap |-> made.heap, ret |-> Returned(made.ref)]

\* Board.copy
Board_copy_init(heap, ref) == Board_init(heap, "list", heap[ref])

\* list[key] = value with an int key
list_setitem(list, key, value) ==
    LET n == ListLen(list)
    IN  IF key \in 0 .. n - 1 THEN Returned(Eager([list EXCEPT ![key] = value]))
        ELSE IF key \in (0 - n) .. (0 - 1)
        THEN Returned(Eager([list EXCEPT ![key + n] = value]))
        ELSE Raised(IndexError)

\* list[start:stop] = values with 0 <= start, 0 <= stop and values a list
list_setslice(list, start, stop, values) ==
    LET n == ListLen(list)
        s == IF start < n THEN start ELSE n
        e == IF stop < s THEN s ELSE IF stop < n THEN stop ELSE n
        m == Len(values)
    IN  Eager([i \in 0 .. (n - (e - s)) + m - 1 |->
                 IF i < s THEN list[i]
                 ELSE IF i < s + m THEN values[(i - s) + 1]
                 ELSE list[(i - m) + (e - s)]])

\* Board.__setitem__; key is an int, a slice or an (x, y) pair, value an int
\* or a list
Board_setitem_key(heap, ref, key, value) ==
    LET stored(ret) ==
            IF ret.kind = "raise" THEN [heap |-> heap, ret |-> ret]
            ELSE [heap |-> Eager([heap EXCEPT ![ref] = ret.value]), ret |-> Returned(None)]
    IN  IF key.type = "int"
        THEN stored(list_setitem(heap[ref], key.at, value.int))
        ELSE IF key.type = "slice"
        THEN IF value.type = "list"
             THEN stored(Returned(list_setslice(heap[ref], key.start, key.stop, value.list)))
             ELSE stored(Raised(TypeError))
        ELSE stored(list_setitem(heap[ref], pos_to_idx(key.pos), value.int))

\* how many operations a caller chains
MaxOps == 2

\* what a caller passes
IntKey(at) == [type |-> "int", at |-> at]
SliceKey(start, stop) == [type |-> "slice", start |-> start, stop |-> stop]
PosKey(pos) == [type |-> "tuple", pos |-> pos]
IntValue(v) == [type |-> "int", int |-> v, list |-> <<>>]
ListValue(v) == [type |-> "list", int |-> 0, list |-> v]
GridArguments ==
    {[type |-> "list", grid |-> AsList(g)] :
        g \in {BASE_BOARD, TEST_BOARD, SubSeq(BASE_BOARD, 1, 80), BASE_BOARD \o <<0>>,
               [BASE_BOARD EXCEPT ![1] = 10], [BASE_BOARD EXCEPT ![81] = 0 - 1]}}
      \cup {[type |-> "tuple", grid |-> AsList(BASE_BOARD)]}
Assignments ==
    {<<IntKey(at), IntValue(v)>> : at \in {0, 80, 81, 0 - 1, 0 - 82}, v \in {0, 9, 10, 0 - 1}}
      \cup {<<PosKey(pos), IntValue(v)>> :
              pos \in {<<0, 0>>, <<8, 8>>, <<9, 0>>, <<8, 9>>}, v \in {0, 5, 10}}
      \cup {<<SliceKey(0, 2), ListValue(v)>> : v \in {<<1, 2>>, <<1>>, <<1, 2, 3>>, <<10, 0>>}}
      \cup {<<SliceKey(0, 2), IntValue(7)>>, <<SliceKey(81, 81), ListValue(<<0>>)>>}

InitBoardOps ==
    /\ board = AsBoard(BASE_BOARD)
    /\ solver = New("Solver", board, TRUE)
    /\ backend = [op |-> "board", heap |-> Imported, call |-> "import",
                  on |-> BaseRef, ret |-> Returned(None), n |-> 0]

BoardInit ==
    /\ backend.op = "board"
    /\ backend.n < MaxOps
    /\ \E arg \in GridArguments :
          LET made == Board_init(backend.heap, arg.type, arg.grid)
          IN  backend' = [backend EXCEPT !.heap = made.heap, !.call = "Board",
                                         !.on = arg, !.ret = made.ret, !.n = @ + 1]
    /\ UNCHANGED <<board, solver>>

BoardSetItem ==
    /\ backend.op = "board"
    /\ backend.n < MaxOps
    /\ \E ref \in DOMAIN backend.heap, a \in Assignments :
          LET set == Board_setitem_key(backend.heap, ref, a[1], a[2])
          IN  backend' = [backend EXCEPT !.heap = set.heap, !.call = "__setitem__",
                                         !.on = ref, !.ret = set.ret, !.n = @ + 1]
    /\ UNCHANGED <<board, solver>>

BoardCopy ==
    /\ backend.op = "board"
    /\ backend.n < MaxOps
    /\ \E ref \in DOMAIN backend.heap :
          LET made == Board_copy_init(backend.heap, ref)
          IN  backend' = [backend EXCEPT !.heap = made.heap, !.call = "copy",
                                         !.on = ref, !.ret = made.ret, !.n = @ + 1]
    /\ UNCHANGED <<board, solver>>

NextBoardOps ==
    \/ BoardInit
    \/ BoardSetItem
    \/ BoardCopy

SpecBoardOps == InitBoardOps /\ [][NextBoardOps]_vars

(***************************************************************************)
(* solve() called again on a Solver whose call has ended (solver.py:       *)
(* 115-126).  The instance keeps its grid, has_solution and, for a         *)
(* TracingSolver, its output; backend remembers the instance as the first  *)
(* call left it.                                                           *)
(***************************************************************************)
\* a variant that starts from squares built anew from the values
Rebuilt_solve_again(s) ==
    Call_solve([s EXCEPT !.ret = Running, !.grid = NewGrid(Values(s.grid))])

solve_again(s) == Call_solve([s EXCEPT !.ret = Running])

CallSolveAgain ==
    /\ solver.pc = "done"
    /\ backend.op = "idle"
    /\ solver' = solve_again(solver)
    /\ backend' = [op |-> "second", first |-> solver]
    /\ UNCHANGED board

NextAgain ==
    \/ Next
    \/ CallSolveAgain

SpecAgain == Init /\ [][NextAgain]_vars

(***************************************************************************)
(* _solve_only_in_single_line_in_region_x (solver.py:279-344), run as      *)
(* test__solve_only_in_single_line_in_region_x runs it: _fill_options(),   *)
(* the pass, then solve(), on one Solver.  backend is the position of that *)
(* script.                                                                 *)
(***************************************************************************)
\* Counter(chain(options of the cells))[num]
CountIn(grid, cells, num) ==
    Cardinality({k \in 1 .. Len(cells) : num \in grid[cells[k]].options})

\* the keys of that Counter in the order it lists them: first appearance
\* along the cells
RECURSIVE CounterKeys(_, _, _, _)
CounterKeys(grid, cells, k, seen) ==
    IF k > Len(cells) THEN <<>>
    ELSE LET new == grid[cells[k]].options \ seen
         IN  SortedSeq(new) \o CounterKeys(grid, cells, k + 1, seen \cup new)

\* the three cells of the region on column r0x + i (dirn "column") or on row
\* r0y + i (dirn "row"), and the six other cells of that column or row
InRegion(dirn, r0x, r0y, i) ==
    IF dirn = "column" THEN [k \in 1 .. 3 |-> pos_to_idx(<<r0x + i, r0y + (k - 1)>>)]
    ELSE [k \in 1 .. 3 |-> pos_to_idx(<<r0x + (k - 1), r0y + i>>)]
OutsideRegion(dirn, r0x, r0y, i) ==
    IF dirn = "column"
    THEN SortedSeq({pos_to_idx(<<r0x + i, y>>) : y \in TUPLE_RANGE9 \ (r0y .. r0y + 2)})
    ELSE SortedSeq({pos_to_idx(<<x, r0y + i>>) : x \in TUPLE_RANGE9 \ (r0x .. r0x + 2)})

\* `options -= {num}; self._update_pos(...)` on the cells outside[k..]
RECURSIVE Eliminated(_, _, _, _)
Eliminated(grid, outside, num, k) ==
    IF k > Len(outside) THEN grid
    ELSE LET cut == Solver_update_pos(
                        Eager([grid EXCEPT ![outside[k]].options = @ \ {num}]),
                        idx_to_pos(outside[k]))
         IN  Then(cut, Eliminated(cut, outside, num, k + 1))

\* the (line, num) pairs that pass `count_in_col == 0 or count_in_col <
\* all_options[num]: continue`, in the order of the two loops; the counters
\* are those of the grid at the call, and all_options[num] counts the lines
\* of the region whose counter has num
Confined(grid, dirn, r0x, r0y, i) ==
    LET cells == InRegion(dirn, r0x, r0y, i)
        all_options(num) ==
            Cardinality({j \in 0 .. 2 : CountIn(grid, InRegion(dirn, r0x, r0y, j), num) > 0})
    IN  SelectSeq([k \in 1 .. Len(CounterKeys(grid, cells, 1, {})) |->
                      <<i, CounterKeys(grid, cells, 1, {})[k]>>],
                  LAMBDA p : ~ (CountIn(grid, cells, p[2]) = 0
                                  \/ CountIn(grid, cells, p[2]) < all_options(p[2])))

RECURSIVE EliminatedAll(_, _, _, _, _, _)
EliminatedAll(grid, dirn, r0x, r0y, todo, k) ==
    IF k > Len(todo) THEN grid
    ELSE LET cut == Eliminated(grid, OutsideRegion(dirn, r0x, r0y, todo[k][1]), todo[k][2], 1)
         IN  Then(cut, EliminatedAll(cut, dirn, r0x, r0y, todo, k + 1))

\* _solve_single_x_col_in_region / _solve_single_y_row_in_region with
\* update_options true: the grid after the call (its result is always True)
SingleLineInRegion(grid, dirn, r_idx_x, r_idx_y) ==
    LET r0x == r_idx_x * 3
        r0y == r_idx_y * 3
        todo == Confined(grid, dirn, r0x, r0y, 0) \o Confined(grid, dirn, r0x, r0y, 1)
                    \o Confined(grid, dirn, r0x, r0y, 2)
    IN  EliminatedAll(grid, dirn, r0x, r0y, todo, 1)

_solve_single_x_col_in_region(grid, r_idx_x, r_idx_y) ==
    SingleLineInRegion(grid, "column", r_idx_x, r_idx_y)
_solve_single_y_row_in_region(grid, r_idx_x, r_idx_y) ==
    SingleLineInRegion(grid, "row", r_idx_x, r_idx_y)

\* the boards the script is run on
LineBoards ==
    {AsBoard(BASE_BOARD), AsBoard(TEST_BOARD),
     Without(AsBoard(BASE_BOARD), {30, 31, 39, 43, 57}),
     Without(AsBoard(BASE_BOARD), {0, 40, 80}),
     Without(AsBoard(BASE_BOARD), {0, 1, 2, 9, 10, 11, 18, 19, 20, 30, 50, 70})}

InitLineInRegion ==
    /\ board \in LineBoards
    /\ \E debug \in BOOLEAN : solver = New("Solver", board, debug)
    /\ backend = [op |-> "line_in_region", pc |-> "_fill_options", call |-> 0]

\* s._fill_options()
LineFillOptions ==
    /\ backend.op = "line_in_region"
    /\ backend.pc = "_fill_options"
    /\ solver' = [solver EXCEPT !.grid = _fill_options(@)]
    /\ backend' = [backend EXCEPT !.pc = "_solve_only_in_single_line_in_region"]
    /\ UNCHANGED board

\* one call of the body of `for rx ...: for ry ...:` in
\* _solve_only_in_single_line_in_region
LineInRegionCall ==
    /\ backend.op = "line_in_region"
    /\ backend.pc = "_solve_only_in_single_line_in_region"
    /\ backend.call < 18
    /\ LET rx == (backend.call \div 2) \div 3
           ry == (backend.call \div 2) % 3
       IN  solver' = [solver EXCEPT !.grid =
                         IF backend.call % 2 = 0
                         THEN _solve_single_x_col_in_region(@, rx, ry)
                         ELSE _solve_single_y_row_in_region(@, rx, ry)]
    /\ backend' = [backend EXCEPT !.call = @ + 1]
    /\ UNCHANGED board

\* _solve_only_in_single_line_in_region falls off its end and returns None,
\* so the `while` of _solve_only_in_single_line_in_region_x runs its
\* condition once and the wrapper returns False
LineInRegionReturn ==
    /\ backend.op = "line_in_region"
    /\ backend.pc = "_solve_only_in_single_line_in_region"
    /\ backend.call = 18
    /\ backend' = [backend EXCEPT !.pc = "solve"]
    /\ UNCHANGED <<board, solver>>

\* s.solve()
LineSolve ==
    /\ backend.op = "line_in_region"
    /\ backend.pc = "solve"
    /\ solver' = Call_solve(solver)
    /\ backend' = [backend EXCEPT !.pc = "solving"]
    /\ UNCHANGED board

NextLineInRegion ==
    \/ LineFillOptions
    \/ LineInRegionCall
    \/ LineInRegionReturn
    \/ LineSolve
    \/ CheckPrecondition
    \/ Fill
    \/ LoopHead
    \/ SinglePossibilityAssign
    \/ SinglePossibilityPassEnd
    \/ OneOccurrenceAssign
    \/ OneOccurrencePassEnd
    \/ CheckPostcondition

SpecLineInRegion == InitLineInRegion /\ [][NextLineInRegion]_vars

(***************************************************************************)
(* Properties                                                              *)
(***************************************************************************)
\* the cells the solver has given a value
Assigned == {i \in Cells : board[i] = 0 /\ solver.grid[i].value # 0}

\* C1: the solver never guesses.  Every value it has assigned to an empty
\* cell of the input is the value of that cell in every valid completion of
\* the input, and when the call returns true on an input with a completion
\* the grid is the one valid completion.  (Where a cell was assigned, the
\* enumeration of the completions was exhaustive.)
C1_NeverGuesses ==
    LET all == CompletionsOf(board)
    IN  /\ Assigned # {} => Cardinality(all) < MaxCompletions
        /\ \A i \in Assigned : \A g \in all : g[i] = solver.grid[i].value
        /\ (solver.ret = Returned(TRUE) /\ all # {}) => all = {Values(solver.grid)}

\* C1 witness: a returned solve on a board with a completion, with cells
\* assigned by single_possibility and by one_occurrence_in
C1_Witness ==
    /\ solver.entry = "solve" /\ solver.ret = Returned(TRUE)
    /\ solver.cls = "TracingSolver"
    /\ Cardinality(Assigned) > 40
    /\ \E k \in 1 .. Len(solver.output) : solver.output[k].method = single_possibility
    /\ \E k \in 1 .. Len(solver.output) : solver.output[k].method = one_occurrence_in


\* C2: on an input without a duplicate, no state of a solve or of a filtered
\* solve has the same non-zero value twice in a row, column or region, and
\* the call does not end with the internal-consistency error.
C2_ValidityPreserved ==
    NoDuplicate(board) =>
        /\ NoDuplicate(Values(solver.grid))
        /\ check_validity(solver.grid)
        /\ solver.ret # Raised(AssertionError)

\* C2 witness: a validated run on a valid input, past its post-condition,
\* that has assigned cells and ended unsolved
C2_Witness ==
    /\ NoDuplicate(board) /\ solver.debug /\ solver.pc = "done"
    /\ Cardinality(Assigned) > 20
    /\ solver.ret = Returned(FALSE)

\* the grid as constructed: the clues, and all digits as options elsewhere
Untouched == solver.grid = NewGrid(board) /\ solver.has_solution = Nothing

\* the resolved strategy set of a finished solve_filtered was empty
ResolvedEmpty == solver.entry = "solve_filtered" /\ solver.solvers = {}

\* C3 as stated: with validation on and a duplicate in the input, solve()
\* and solve_filtered() end with the invalid-precondition error, with no
\* cell, no option set and not has_solution changed.
C3_Original ==
    (solver.debug /\ ~NoDuplicate(board)) =>
        /\ Untouched
        /\ (solver.pc = "done" /\ solver.entry \in {"solve", "solve_filtered"})
                => solver.ret = Raised(InvalidSudokuError)

\* C3 amended: with validation on and a duplicate in the input, no cell, no
\* option set and not has_solution ever changes; solve(), _solve_with_solvers
\* and a solve_filtered whose resolved strategy set is not empty end with the
\* invalid-precondition error, and a solve_filtered whose resolved set is
\* empty ends with the configuration error instead.
C3_InvalidInput ==
    (solver.debug /\ ~NoDuplicate(board)) =>
        /\ Untouched
        /\ solver.pc = "done" =>
                solver.ret = IF ResolvedEmpty THEN Raised(ValueError)
                             ELSE Raised(InvalidSudokuError)

\* C3 witness: a filtered solve with one strategy refused an invalid input
C3_Witness ==
    /\ solver.debug /\ ~NoDuplicate(board) /\ solver.pc = "done"
    /\ solver.entry = "solve_filtered" /\ solver.solvers = {one_occurrence_in}
    /\ solver.ret = Raised(InvalidSudokuError)

\* C4: check_validity is true exactly when no row, column or region has the
\* same non-zero value in two cells, on every grid a run steps from; and the
\* steps that call it (the pre- and the post-condition) answer by it and
\* leave every cell value and option set as it was.
C4_CheckValidity ==
    [][ /\ check_validity(solver.grid) <=> NoDuplicate(Values(solver.grid))
        /\ solver.pc \in {"pre", "post"} =>
                /\ solver'.grid = solver.grid
                /\ solver.debug =>
                      (NoDuplicate(Values(solver.grid)) <=>
                            solver'.ret \notin {Raised(InvalidSudokuError),
                                                Raised(AssertionError)})
      ]_vars

\* C4 witness: the pre-condition refused a grid whose only duplicate is in
\* a region
C4_Witness ==
    /\ solver.ret = Raised(InvalidSudokuError)
    /\ \A l \in 0 .. 17 : _check_validity_seq(solver.grid, LineSeq(l))
    /\ \E l \in 18 .. 26 : ~_check_validity_seq(solver.grid, LineSeq(l))

\* the resolved set the four cases give when no default policy is passed
ResolvedSet(include, exclude) ==
    IF include = Nothing /\ exclude = Nothing THEN SolverMethod
    ELSE IF include = Nothing THEN SolverMethod \ exclude[1]
    ELSE IF exclude = Nothing THEN include[1]
    ELSE include[1] \ exclude[1]

\* C5: solve_filtered without a default policy resolves to all strategies
\* minus the excludes (only excludes given), the includes (only includes),
\* includes minus excludes (both), all strategies (neither); it raises the
\* configuration error exactly when that set is empty, and the resolution
\* changes no cell and no option set.
C5_Resolution ==
    [][ (solver.pc = "_get_solvers" /\ solver.default = None) =>
            LET expected == ResolvedSet(solver.include, solver.exclude)
            IN  /\ (expected = {}) <=> (solver'.ret = Raised(ValueError))
                /\ expected = {} => solver'.pc = "done"
                /\ expected # {} => (solver'.solvers = expected /\ solver'.ret = Running)
                /\ solver.grid = NewGrid(board)
                /\ solver'.grid = solver.grid
                /\ solver'.has_solution = Nothing
      ]_vars

\* C5 witness: a resolution to one strategy, and the solve that follows it
C5_Witness ==
    /\ solver.entry = "solve_filtered" /\ solver.solvers = {single_possibility}
    /\ solver.loop = "_solve_with_solvers" /\ solver.pc = "done"
    /\ solver.ret = Returned(TRUE)

\* the same call on a fresh solver of the same class, run by solve()
SolveRun == Run(Call_solve(New(solver.cls, board, solver.debug)))

\* a finished filtered solve whose resolved set was the full default set
FullSetDone ==
    /\ solver.pc = "done"
    /\ solver.entry \in {"solve_filtered", "_solve_with_solvers"}
    /\ solver.solvers = SolverMethod

\* C6: a filtered solve whose resolved strategy set is the full set, by the
\* dispatch of solve_filtered or by the loop of _solve_with_solvers, ends
\* with the cell values, option sets, has_solution and return value or error
\* of solve() on a fresh solver of the same board.
C6_FullSetIsSolve ==
    FullSetDone =>
        /\ solver.grid = SolveRun.grid
        /\ solver.has_solution = SolveRun.has_solution
        /\ solver.ret = SolveRun.ret

\* C6 witness: _solve_with_solvers with both strategies solved a board that
\* single_possibility alone leaves unsolved
C6_Witness ==
    /\ solver.pc = "done" /\ solver.entry = "_solve_with_solvers"
    /\ solver.solvers = SolverMethod /\ solver.ret = Returned(TRUE)
    /\ Single_is_easy(board) = Returned(FALSE)

RestrictedDone ==
    /\ solver.pc = "done" /\ solver.entry = "solve_filtered"
    /\ solver.solvers = {one_occurrence_in}

\* C8: on a board without a duplicate, when the solve restricted to
\* one_occurrence_in ends solved, the full solve() of the same board ends
\* solved.
C8_Monotone ==
    (NoDuplicate(board) /\ RestrictedDone /\ solver.ret = Returned(TRUE)) =>
        SolveRun.ret = Returned(TRUE)

\* C8 witness: the restricted solve solved a board on which a pass of
\* single_possibility finds nothing to do at first
C8_Witness ==
    /\ NoDuplicate(board) /\ RestrictedDone /\ solver.ret = Returned(TRUE)
    /\ Single_is_easy(board) = Returned(FALSE)

\* the Solver a TracingSolver is a specialization of: the same fields
\* without the ones TracingSolver adds
AsSolver(s) ==
    [s EXCEPT !.cls = "Solver", !.curr_method = None, !.curr_data = None,
              !.output = <<>>]

\* C9: a TracingSolver moves in step with a Solver built from the same
\* input: every step of a call on it is, on the fields of Solver, the step
\* the Solver takes from the same state, so both make the same assignments
\* in the same order and end with the same cell values, option sets and
\* return value or error, whatever the strategy selection.
C9_TracingIsSolver ==
    [][ (solver.cls = "TracingSolver" /\ solver.pc # "new") =>
            AsSolver(solver') = Step(AsSolver(solver)) ]_vars

\* C9 witness: a TracingSolver solved a board by a filtered solve and
\* recorded its steps
C9_Witness ==
    /\ solver.cls = "TracingSolver" /\ solver.pc = "done"
    /\ solver.entry = "solve_filtered" /\ solver.ret = Returned(TRUE)
    /\ Len(solver.output) > 40

\* an int, as a step would hold it
IntObj(d) == [kind |-> "int", value |-> d]

\* the digit a step's num stands for: the int, or the value of the cell
\* object it refers to
Digit(num) == IF num.kind = "int" THEN num.value ELSE solver.grid[num.ref].value

\* the board with the digits of the steps written at their positions
RECURSIVE Replay(_, _, _)
Replay(b, steps, k) ==
    IF k > Len(steps) THEN b
    ELSE Replay(Eager([b EXCEPT ![pos_to_idx(steps[k].pos)] = Digit(steps[k].num)]),
                steps, k + 1)

\* the strategy whose pass is running
Strategy == IF solver.pc = "sp" THEN single_possibility ELSE one_occurrence_in

\* one step per assigned cell, in the order of the assignments, at a cell
\* empty in the input, of the kind of the strategy that assigned; the
\* sequence grows by appending only
StepPerAssignment ==
    /\ Len(solver.output) = Cardinality(Assigned)
    /\ \A k \in 1 .. Len(solver.output) : board[pos_to_idx(solver.output[k].pos)] = 0
    /\ \/ solver'.output = solver.output
              /\ \A i \in Cells : solver'.grid[i].value = solver.grid[i].value
       \/ /\ Len(solver'.output) = Len(solver.output) + 1
          /\ SubSeq(solver'.output, 1, Len(solver.output)) = solver.output
          /\ LET step == solver'.output[Len(solver'.output)]
                 i == pos_to_idx(step.pos)
             IN  /\ step.method = Strategy
                 /\ solver.grid[i].value = 0 /\ solver'.grid[i].value # 0
                 /\ \A j \in Cells \ {i} : solver'.grid[j].value = solver.grid[j].value

\* C10 as stated: the steps of a TracingSolver are one per assigned cell, in
\* the order of the assignments, each at a cell empty in the input, of the
\* kind of the strategy that assigned, holding the digit assigned there;
\* the digits written in order onto the input give the solver's grid; the
\* sequence grows by appending only.
C10_Original ==
    [][ solver.cls = "TracingSolver" =>
            /\ StepPerAssignment
            /\ \A k \in 1 .. Len(solver.output) :
                  solver.output[k].num =
                        IntObj(solver.grid[pos_to_idx(solver.output[k].pos)].value)
            /\ Replay(board, solver.output, 1) = Values(solver.grid)
      ]_vars

\* C10 without the digit: the rest of the statement, with the digit of a
\* step read through the cell object its num field refers to.
C10_StepsThroughCells ==
    [][ solver.cls = "TracingSolver" =>
            /\ StepPerAssignment
            /\ \A k \in 1 .. Len(solver.output) :
                  solver.output[k].num = Ref(pos_to_idx(solver.output[k].pos))
            /\ Replay(board, solver.output, 1) = Values(solver.grid)
      ]_vars

\* a TracingSolver has recorded steps of both kinds
C10_Witness ==
    /\ solver.cls = "TracingSolver" /\ solver.pc = "done"
    /\ \E k \in 1 .. Len(solver.output) : solver.output[k].method = single_possibility
    /\ \E k \in 1 .. Len(solver.output) : solver.output[k].method = one_occurrence_in
    /\ \E k \in 1 .. Len(solver.output) : solver.output[k].num # IntObj(Digit(solver.output[k].num))

(***************************************************************************)
(* Properties of the generator                                             *)
(***************************************************************************)
\* what the contract of can_remove_number gives for cell i of a grid
Removable(grid, i) ==
    IF grid[i] = 0 THEN Returned(Nothing) ELSE Optional(is_solvable(Without(grid, {i})))

\* C11: can_remove_number(board, cell) returns None exactly when the cell is
\* empty and otherwise ends as is_solvable ends on the board with that one
\* cell cleared; get_removable_numbers returns the list of 81 entries whose
\* entry i is the result of can_remove_number(board, i), and raises only
\* what can_remove_number raises for some cell.
C11_RemovableNumbers ==
    /\ (backend.op = "probe" /\ backend.pc = "done" /\ backend.call = "can_remove_number") =>
          /\ (backend.ret = Returned(Nothing)) <=> (backend.before[backend.location] = 0)
          /\ backend.ret = Removable(backend.before, backend.location)
    /\ (backend.op = "probe" /\ backend.pc = "done"
            /\ backend.call = "get_removable_numbers") =>
          IF backend.ret.kind = "return"
          THEN /\ Len(backend.ret.value) = 81
               /\ \A i \in Cells :
                     Returned(backend.ret.value[i + 1]) = Removable(backend.before, i)
          ELSE \E i \in Cells : backend.ret = Removable(backend.before, i)

\* C11 witness: get_removable_numbers has returned a list that holds all of
\* None, true and false
C11_Witness ==
    /\ backend.op = "probe" /\ backend.pc = "done"
    /\ backend.call = "get_removable_numbers"
    /\ backend.ret.kind = "return"
    /\ {Nothing, Some(TRUE), Some(FALSE)} \subseteq Range(backend.ret.value)

\* the board variable of a running shuffled_board
Shuffling == backend.heap[backend.board]

\* C13: at every point of shuffled_board(BASE_BOARD) after its first copy,
\* for every choice of the orders, the board is fully assigned and passes
\* check_validity(), and the board generate_random_board returns is one that
\* is_solvable finds solvable.
C13_ShuffleKeepsValid ==
    (backend.op = "shuffled_board" /\ backend.pc # "copy") =>
        /\ \A i \in Cells : Shuffling[i] \in SET_1_TO_9
        /\ check_validity(New("Solver", Shuffling, TRUE).grid)
        /\ backend.pc = "done" =>
              /\ backend.ret = Returned(backend.board)
              /\ is_solvable(Shuffling) = Returned(TRUE)

\* C13 witness: generate_random_board has returned a board that differs
\* from the reference grid, reached through a region step and a number step
\* that both changed the board
C13_Witness ==
    /\ backend.op = "shuffled_board" /\ backend.pc = "done"
    /\ Shuffling # AsBoard(BASE_BOARD)
    /\ backend.last.before # Shuffling
    /\ \E i \in Cells : Shuffling[i] = 9 /\ backend.last.before[i] = 8

\* C14: steps (2) and (4) of shuffled_board reorder rows.  After the step
\* that shuffles the rows of the band at row y0 into the order p, row
\* y0 + p[i] of the board is row y0 + i of the board the step was given,
\* column by column, and the rows outside the band are as they were; after
\* the step that shuffles the bands (y0 = 0, p the nine rows band by band)
\* the same holds.
C14_Original ==
    (backend.op = "shuffled_board"
        /\ backend.last.step \in {"y_rows_in_y_region", "y_region_rows"}) =>
        LET p == backend.last.order
            y0 == backend.last.at
            given == backend.last.before
        IN  /\ \A k \in 1 .. Len(p), x \in TUPLE_RANGE9 :
                  Shuffling[pos_to_idx(<<x, y0 + p[k]>>)]
                      = given[pos_to_idx(<<x, y0 + (k - 1)>>)]
            /\ \A y \in TUPLE_RANGE9 \ (y0 .. y0 + Len(p) - 1), x \in TUPLE_RANGE9 :
                  Shuffling[pos_to_idx(<<x, y>>)] = given[pos_to_idx(<<x, y>>)]

\* C14 witness: the row step of the first band has been taken with an order
\* that swaps its first two rows, and every row of the board still holds
\* the digits of the same row of the board it was given, in another order
C14_Witness ==
    /\ backend.op = "shuffled_board"
    /\ backend.last.step = "y_rows_in_y_region"
    /\ backend.last.at = 0 /\ backend.last.order = <<1, 0, 2>>
    /\ Shuffling # backend.last.before
    /\ \A y \in TUPLE_RANGE9, x \in TUPLE_RANGE9 :
          Shuffling[pos_to_idx(<<x, y>>)]
              = backend.last.before[pos_to_idx(<<IF x = 0 THEN 1 ELSE IF x = 1 THEN 0 ELSE x,
                                                 y>>)]

\* a finished _find_boards_matching that returned (success, best_i, board)
Matched ==
    /\ backend.op = "_find_boards_matching"
    /\ backend.pc = "done" /\ backend.ret.kind = "return"

\* the first n cells of the removal order
Prefix(n) == {backend.removal_order[k] : k \in 1 .. n}

\* C15: when find_boards_matching reports success, the board it returns has
\* every cell of removal_order cleared, no other cell cleared, and is
\* solvable by the solver; when it reports failure with a board, the
\* board's achieved prefix is strictly shorter than removal_order: the
\* cells of the prefix are cleared and the board is solvable, the next cell
\* of removal_order is still filled, and clearing it too gives a board the
\* solver cannot solve.
C15_SuccessIsFullPrefix ==
    Matched =>
        LET success == backend.ret.value[1]
            best_i == backend.ret.value[2]
            best_board == backend.ret.value[3]
            grid == backend.heap[best_board[1]]
            n == Len(backend.removal_order)
        IN  /\ success => best_board # Nothing /\ best_i = n - 1
            /\ best_board # Nothing =>
                  /\ ~success => best_i + 1 < n
                  /\ best_i + 1 >= backend.want_min
                  /\ {i \in Cells : grid[i] = 0} = Prefix(best_i + 1)
                  /\ is_solvable(grid) = Returned(TRUE)
                  /\ ~success =>
                        is_solvable(Without(grid, {backend.removal_order[best_i + 2]}))
                            = Returned(FALSE)

\* C15 witness: the search has returned success on its second trial, after
\* a first trial that passed the gate and fell short
C15_Witness ==
    /\ Matched
    /\ backend.ret.value[1] = TRUE
    /\ backend.removal_order # <<>>
    /\ Len(backend.drawn) = 2
    /\ backend.trials[backend.drawn[1]].passed

\* the trials so far that passed the minimum-removal gate, and the prefix
\* index each achieved
Passed == {k \in 1 .. Len(backend.drawn) : backend.trials[backend.drawn[k]].passed}
Achieved(k) == backend.trials[backend.drawn[k]].last_i_solvable

\* C16: after any number of trials the tracked best board is the board of
\* the earliest trial, among those that passed the gate, that achieved the
\* largest prefix so far; no trial follows one that achieved the full
\* removal order, and the call returns success at once when one does; at
\* most stop_after trials are run; the returned board is None exactly when
\* no trial passed the gate.
C16_BestIsEarliestLargest ==
    (backend.op = "_find_boards_matching" /\ backend.pc # "assert"
            /\ backend.ret.kind # "raise") =>
        LET n == Len(backend.removal_order)
        IN  /\ backend.i = Len(backend.drawn) /\ backend.i <= backend.stop_after
            /\ IF Passed = {} THEN backend.best_board = Nothing
               ELSE LET first == CHOOSE k \in Passed :
                                    /\ \A j \in Passed : Achieved(j) <= Achieved(k)
                                    /\ \A j \in Passed : j < k => Achieved(j) < Achieved(k)
                    IN  /\ backend.best_board # Nothing
                        /\ backend.best_i = Achieved(first)
                        /\ backend.heap[backend.best_board[1]]
                               = backend.trials[backend.drawn[first]].grid
            /\ \A k \in Passed : Achieved(k) = n - 1 =>
                  /\ k = Len(backend.drawn)
                  /\ backend.pc = "done" /\ backend.ret.value[1] = TRUE
            /\ backend.pc = "done" =>
                  /\ backend.ret.value[3] = backend.best_board
                  /\ backend.ret.value[2] = backend.best_i
                  /\ (backend.ret.value[3] = Nothing) <=> (Passed = {})
                  /\ ~backend.ret.value[1] => backend.i = backend.stop_after

\* C16 witness: three trials were run and the search returned failure with
\* the board of the first; the second passed the gate with the same prefix
\* on a different board
C16_Witness ==
    /\ Matched
    /\ Len(backend.drawn) = 3 /\ Passed = {1, 2, 3}
    /\ Achieved(1) = Achieved(2) /\ Achieved(3) <= Achieved(1)
    /\ backend.trials[backend.drawn[1]].grid # backend.trials[backend.drawn[2]].grid
    /\ backend.heap[backend.ret.value[3][1]] = backend.trials[backend.drawn[1]].grid
    /\ backend.ret.value[1] = FALSE

\* a finished _find_boards_matching_parallel that returned a merged result
Merged ==
    /\ backend.op = "_find_boards_matching_parallel"
    /\ backend.pc = "done" /\ backend.ret.kind = "return"

\* what worker k returned
WorkerResult(k) == backend.workers[k].result[1].value

\* the workers that returned a board
WithBoard == {k \in 1 .. backend.cores : WorkerResult(k)[3] # Nothing}

\* C17: the merged result of find_boards_matching_parallel is the result of
\* the worker with the largest achieved prefix among the workers that
\* returned a board, the lowest-numbered of them when several share it, and
\* (false, 0, None) when no worker returned a board; it is determined by
\* the workers' results alone, whatever the order they finished in; it
\* reports success exactly when some worker reported success.
C17_MergeIsBestWorker ==
    Merged =>
        /\ Len(backend.result_list) = backend.cores
        /\ \A k \in 1 .. backend.cores : backend.result_list[k] = WorkerResult(k)
        /\ IF WithBoard = {} THEN backend.ret.value = <<FALSE, 0, Nothing>>
           ELSE \E k \in WithBoard :
                  /\ backend.ret.value = WorkerResult(k)
                  /\ \A j \in WithBoard : WorkerResult(j)[2] <= WorkerResult(k)[2]
                  /\ \A j \in WithBoard : j < k => WorkerResult(j)[2] < WorkerResult(k)[2]
        /\ backend.ret.value[1] <=> \E k \in 1 .. backend.cores : WorkerResult(k)[1]

\* C17 witness: three workers, the last finishing first and the first last;
\* the first two returned different boards of the same prefix, the third
\* returned none of a larger prefix, and the merge is the first worker's
C17_Witness ==
    /\ Merged
    /\ backend.cores = 3 /\ backend.finished = <<3, 2, 1>>
    /\ WithBoard = {1, 2, 3}
    /\ WorkerResult(1)[2] = WorkerResult(2)[2]
    /\ WorkerResult(1)[3] # WorkerResult(2)[3]
    /\ WorkerResult(3)[2] <= WorkerResult(1)[2]
    /\ backend.ret.value = WorkerResult(1)

\* the board find_hard_sudoku returned, when it returned one
HardFound ==
    /\ backend.op = "find_hard_sudoku" /\ backend.pc = "done"
    /\ backend.ret.value # Nothing

\* C18: a board find_hard_sudoku returns is one classify_board calls hard as
\* it is at the return (the full solve() solves it, one_occurrence_in alone
\* does not), and each of its cells is 0 or the reference grid's cell; the
\* search never starts more than max_tries trials; it returns None only
\* when max_tries trials were run and classify_board never answered hard.
C18_HardOrNone ==
    backend.op = "find_hard_sudoku" =>
        /\ backend.i <= backend.max_tries
        /\ backend.pc = "done" =>
              /\ backend.ret.kind = "return"
              /\ IF backend.ret.value = Nothing
                 THEN backend.i = backend.max_tries /\ "hard" \notin backend.seen
                 ELSE LET grid == backend.heap[backend.ret.value[1]]
                      IN  /\ classify_board(grid, FALSE) = "hard"
                          /\ Run(Call_solve(New("Solver", grid, FALSE))).ret = Returned(TRUE)
                          /\ is_easy(grid) # Returned(TRUE)
                          /\ \A c \in Cells : grid[c] \in {0, AsBoard(BASE_BOARD)[c]}
        /\ backend.pc # "done" => "hard" \notin backend.seen

\* C18 witness: the second trial of a search returned a hard board from the
\* way back, after a first trial that was given up
C18_Witness ==
    /\ HardFound
    /\ backend.i = 2 /\ backend.k = 5
    /\ backend.seen = {"easy", "unsolvable", "hard"}
    /\ backend.heap[backend.ret.value[1]] = Without(AsBoard(BASE_BOARD), Range(HardHoles))

\* a finished find_hard_sudoku_parallel
HardParallelDone == backend.op = "find_hard_sudoku_parallel" /\ backend.pc = "done"

\* what worker k's find_hard_sudoku returned, once it has
HardWorkerResult(k) == backend.workers[k].result[1].value

\* the places in the order of completion of the workers that completed
\* with a board
CompletedWithBoard ==
    {n \in 1 .. Len(backend.completed) : HardWorkerResult(backend.completed[n]) # Nothing}

\* C19: whatever the order in which the workers complete,
\* find_hard_sudoku_parallel returns the board of the first worker that
\* completes with one, without taking any later result; it returns None
\* only when every worker has completed with None, and it cannot return
\* None when a worker has completed with a board it has taken; a board it
\* returns is the board some worker's find_hard_sudoku returned.
C19_FirstCompletedBoard ==
    backend.op = "find_hard_sudoku_parallel" =>
        /\ backend.taken <= Len(backend.completed)
        /\ backend.pc # "done" =>
              \A n \in CompletedWithBoard : n > backend.taken
        /\ HardParallelDone =>
              /\ backend.ret.kind = "return"
              /\ IF backend.ret.value = Nothing
                 THEN /\ Len(backend.completed) = backend.cores
                      /\ \A k \in 1 .. backend.cores :
                            backend.workers[k].result # Nothing /\ HardWorkerResult(k) = Nothing
                 ELSE /\ CompletedWithBoard # {}
                      /\ backend.taken = SetMin(CompletedWithBoard)
                      /\ backend.ret.value = HardWorkerResult(backend.completed[backend.taken])
                      /\ \E k \in 1 .. backend.cores :
                            /\ backend.workers[k].result # Nothing
                            /\ backend.ret.value = HardWorkerResult(k)

\* C19 witness: of three workers the third completed first, with None, the
\* second next, with a board, and the parallel search returned that board
\* while the first worker was still running
C19_Witness ==
    /\ HardParallelDone
    /\ backend.cores = 3 /\ backend.completed = <<3, 2>>
    /\ backend.workers[1].result = Nothing
    /\ HardWorkerResult(3) = Nothing
    /\ backend.ret.value # Nothing
    /\ backend.ret.value = HardWorkerResult(2)

\* a call of find_hard_sudoku or _find_boards_matching as it would be had
\* it been made with progress reporting off
Quiet(g) ==
    IF g.op = "find_hard_sudoku"
    THEN [g EXCEPT !.print_every = 0, !.pretty_progress = FALSE, !.printed = <<>>]
    ELSE [g EXCEPT !.print_progress = 0, !.printed = <<>>]

\* a step of a search leaves, progress apart, the state that the same step
\* of the quiet call leaves
QuietStep ==
    /\ (backend.op = "find_hard_sudoku" /\ backend.pc = "for") =>
          /\ backend.i >= backend.max_tries =>
                Quiet(backend') = HardExhausted(Quiet(backend))
          /\ \A initial_rm \in Samples(backend.initial_n) :
                backend' = HardTrial(backend, initial_rm) =>
                    Quiet(backend') = HardTrial(Quiet(backend), initial_rm)
    /\ (backend.op = "find_hard_sudoku" /\ backend.pc = "loop") =>
          \A rm_now \in Samples(backend.initial_n) :
              backend' = HardLoop(backend, rm_now) =>
                  Quiet(backend') = HardLoop(Quiet(backend), rm_now)
    /\ (backend.op = "find_hard_sudoku" /\ backend.pc = "backtrack") =>
          Quiet(backend') = HardBacktrack(Quiet(backend))
    /\ (backend.op = "_find_boards_matching" /\ backend.pc = "assert") =>
          Quiet(backend') = MatchingAssert(Quiet(backend))
    /\ (backend.op = "_find_boards_matching" /\ backend.pc = "for") =>
          IF backend.i >= backend.stop_after
          THEN Quiet(backend') = MatchingExhausted(Quiet(backend))
          ELSE Quiet(backend')
                   = MatchingTrial(Quiet(backend), backend'.drawn[Len(backend'.drawn)])

\* of the workers of a parallel search only the first has progress on
FirstWorkerReports ==
    /\ backend.op = "find_hard_sudoku_parallel" =>
          \A k \in DOMAIN backend.workers :
              backend.workers[k].print_every = IF k = 1 THEN backend.print_every ELSE 0
    /\ backend.op = "_find_boards_matching_parallel" =>
          \A k \in DOMAIN backend.workers :
              backend.workers[k].print_progress = IF k = 1 THEN backend.print_progress ELSE 0

\* C20: progress reporting does not influence a search.  Every step of
\* find_hard_sudoku and of _find_boards_matching, on the same draw of the
\* random stream, leaves the state that the step of the call made with
\* progress off leaves, what was printed apart: so from the same stream and
\* parameters the two calls go through the same states and return the same
\* board, or the same (success, prefix, board), for every print_every,
\* pretty_progress and print_progress.  In both parallel searches the first
\* worker is given the caller's print_every or print_progress and every
\* other worker 0.
C20_ProgressIsSilent == [][QuietStep /\ FirstWorkerReports']_vars

\* C20 witness: find_hard_sudoku with pretty progress on every pass has
\* returned a board from its second pass, having printed two progress lines
\* and the closing newline
C20_Witness ==
    /\ HardFound
    /\ backend.print_every = 1 /\ backend.pretty_progress
    /\ backend.i = 2
    /\ backend.printed = << <<"", 0, 2>>, <<"\\r", 1, 2>>, <<"newline">> >>

\* C12: boards are not aliased.  Whatever a generator operation has done
\* so far (a probe, shuffled_board / generate_random_board, the trials of
\* find_boards_matching, the passes of find_hard_sudoku), BASE_BOARD holds
\* its 81 values; the board a probe or shuffled_board was handed holds what
\* it held at the call; the boards the operations work on and return are
\* other objects than BASE_BOARD and than the board handed in; and the
\* copy find_hard_sudoku keeps in `prev` is not changed by the removals
\* made on `board`: when the way back starts, `prev` is still a board that
\* was classified easy.
C12_BoardsNotAliased ==
    backend.op # "idle" =>
        /\ backend.heap[BaseRef] = AsBoard(BASE_BOARD)
        /\ backend.op = "probe" =>
              /\ backend.heap[backend.board] = backend.before
              /\ (backend.pc = "done" /\ backend.call = "solve_board"
                      /\ backend.ret.kind = "return") =>
                    backend.ret.value[2] \notin {BaseRef, backend.board}
        /\ backend.op = "shuffled_board" =>
              /\ backend.heap[backend.arg] = backend.before
              /\ backend.pc # "copy" => backend.board # backend.arg
        /\ backend.op = "_find_boards_matching" =>
              BaseRef \notin Range(backend.best_board)
        /\ backend.op = "find_hard_sudoku" =>
              /\ BaseRef \notin Range(backend.board) \cup Range(backend.prev)
              /\ backend.pc = "loop" => backend.board # backend.prev
              /\ (backend.pc = "backtrack" /\ backend.k = 1) =>
                    backend.classes[backend.heap[backend.prev[1]]] = "easy"
              /\ (backend.pc = "done" /\ backend.ret.value # Nothing) =>
                    backend.ret.value[1] # BaseRef

\* C12 witness: a pass of find_hard_sudoku has cleared cells of its board
\* until the board was unsolvable and is about to go back to `prev`, which
\* has fewer cells cleared than were sampled
C12_Witness ==
    /\ backend.op = "find_hard_sudoku" /\ backend.pc = "backtrack" /\ backend.k = 1
    /\ "unsolvable" \in backend.seen /\ backend.i = 1
    /\ backend.rm_now # Nothing
    /\ \E c \in Range(backend.rm_now[1]) : backend.heap[backend.prev[1]][c] # 0
    /\ backend.heap[BaseRef] = AsBoard(BASE_BOARD)

(***************************************************************************)
(* Properties of Board                                                     *)
(***************************************************************************)
\* C21: the flat and the nested layout are bijective views of one grid:
\* nested_to_flat(flat_to_nested(f)) = f for every flat list f of 81 entries,
\* and flat_to_nested(nested_to_flat(N)) = N for every 9x9 nested list N.
C21_Original ==
    backend.op = "layout" =>
        /\ backend.calls = <<"flat_to_nested", "nested_to_flat">>
              /\ backend.shape = "flat" => backend.value = backend.input
        /\ backend.calls = <<"nested_to_flat", "flat_to_nested">>
              /\ backend.shape = "nested" => backend.value = backend.input

\* a round trip from a 9x9 nested list has returned its transpose, which is
\* another list
C21_Witness ==
    /\ backend.op = "layout"
    /\ backend.calls = <<"nested_to_flat", "flat_to_nested">>
    /\ backend.shape = "nested"
    /\ backend.value = swap_rows(backend.input)
    /\ backend.value # backend.input

\* a Board object of the heap holds 81 entries, each an integer in 0..9
ValidGrid(grid) ==
    /\ DOMAIN grid = Cells
    /\ \A i \in Cells : grid[i] \in 0 .. 9

\* C22: after any sequence of Board operations (construct-and-validate,
\* assign by flat index, by slice or by (x, y) pair, copy) every board's grid
\* has exactly 81 entries, each an integer in 0..9; construction rejects any
\* length other than 81 and any value outside 0..9.
C22_Original ==
    backend.op = "board" =>
        /\ \A ref \in DOMAIN backend.heap : ValidGrid(backend.heap[ref])
        /\ backend.call = "Board" =>
              (~ ValidGrid(backend.on.grid) => backend.ret.kind = "raise")

\* an assignment by flat index has returned and left a 10 in the board it
\* was made on
C22_Witness ==
    /\ backend.op = "board"
    /\ backend.call = "__setitem__"
    /\ backend.ret.kind = "return"
    /\ DOMAIN backend.heap[backend.on] = Cells
    /\ \E i \in Cells : backend.heap[backend.on][i] = 10

(***************************************************************************)
(* Properties of the solver, continued                                     *)
(***************************************************************************)
\* the input has no empty cell and passes check_validity
FullValid == (\A i \in Cells : board[i] # 0) /\ check_validity(NewGrid(board))

\* the options of every cell
Options(grid) == Eager([i \in Cells |-> grid[i].options])

\* the call in progress is solve(), called a second time on an instance
\* whose first solve() returned
SecondSolve ==
    /\ backend.op = "second"
    /\ backend.first.loop = "solve"
    /\ backend.first.ret.kind = "return"

\* C23: idempotence.  solve() on a fully assigned board that satisfies
\* check_validity() changes no cell value and returns true; a second solve()
\* on the same instance after the first has converged changes no cell value
\* and no option set and returns the same result as the first.
C23_Idempotent ==
    /\ FullValid /\ solver.loop = "solve" =>
          /\ Values(solver.grid) = board
          /\ solver.pc = "done" => solver.ret = Returned(TRUE)
    /\ SecondSolve =>
          /\ Values(solver.grid) = Values(backend.first.grid)
          /\ Options(solver.grid) = Options(backend.first.grid)
          /\ solver.pc = "done" =>
                /\ solver.ret = backend.first.ret
                /\ solver.has_solution = backend.first.has_solution

\* a second solve() has returned on an instance whose first solve() filled
\* some cells and left others empty
C23_Witness ==
    /\ SecondSolve
    /\ solver.pc = "done"
    /\ solver.ret = Returned(FALSE)
    /\ \E i \in Cells : board[i] = 0 /\ solver.grid[i].value # 0

\* every cell with a value has that value as its only option
Pinned == \A i \in Cells : solver.grid[i].value # 0 => solver.grid[i].options = {solver.grid[i].value}

\* a step keeps every value that is not 0 and adds no option to any cell
Settled ==
    \A i \in Cells :
        /\ solver.grid[i].value # 0 => solver'.grid[i].value = solver.grid[i].value
        /\ solver'.grid[i].options \subseteq solver.grid[i].options

\* C24: during any solve, once a cell's value is non-zero it never changes
\* again (every clue of the input keeps its value in the final grid), every
\* cell's option set at a later point is a subset of its option set at any
\* earlier point, and an assigned cell's option set is exactly {value}.
C24_ValuesAreFinal == []Pinned /\ [][Settled]_vars

\* a one_occurrence_in pass is under way on a grid where the solver has given
\* a cell its value and an empty cell is down to two or more of its options
C24_Witness ==
    /\ solver.pc = "ooi"
    /\ solver.inside
    /\ \E i \in Cells : board[i] = 0 /\ solver.grid[i].value # 0
    /\ \E j \in Cells :
          /\ solver.grid[j].value = 0
          /\ Cardinality(solver.grid[j].options) \in 2 .. 8

\* the strategies the running call applies
Enabled(method) == solver.loop = "solve" \/ method \in solver.solvers

\* the places of line l whose options hold digit d
Holders(l, d) == {k \in 1 .. 9 : d \in solver.grid[LineSeq(l)[k]].options}

\* C25: when solve() or a filtered solve returns, the grid is a fixed point
\* of every enabled strategy: with single_possibility enabled no unassigned
\* cell has exactly one option, and with one_occurrence_in enabled no digit
\* is in the options of exactly one cell of one of the 27 lines with that
\* cell unassigned.
C25_FixedPoint ==
    solver.pc = "done" /\ solver.ret.kind = "return" =>
        /\ Enabled(single_possibility) =>
              \A i \in Cells :
                  ~ (solver.grid[i].value = 0 /\ Cardinality(solver.grid[i].options) = 1)
        /\ Enabled(one_occurrence_in) =>
              \A l \in 0 .. 26, d \in SET_1_TO_9 :
                  Cardinality(Holders(l, d)) = 1 =>
                      \A k \in Holders(l, d) : solver.grid[LineSeq(l)[k]].value # 0

\* a call with one_occurrence_in alone has returned unsolved after filling a
\* cell, and a cell it leaves empty has one option: a strategy that is not
\* enabled is not at its fixed point
C25_Witness ==
    /\ solver.pc = "done"
    /\ solver.ret = Returned(FALSE)
    /\ solver.loop = "_solve_with_solvers"
    /\ solver.solvers = {one_occurrence_in}
    /\ \E i \in Cells : board[i] = 0 /\ solver.grid[i].value # 0
    /\ \E j \in Cells : solver.grid[j].value = 0 /\ Cardinality(solver.grid[j].options) = 1

\* no empty cell has among its options a digit that a cell of its row, column
\* or region holds
Consistent ==
    \A i \in Cells :
        solver.grid[i].value = 0 =>
            \A j \in Peers[i] :
                solver.grid[j].value # 0 => solver.grid[j].value \notin solver.grid[i].options

\* the options are filled in and a strategy is about to examine a cell or a
\* digit, or the loop is about to be entered or left
AtCheck == solver.pc \in {"while", "sp", "ooi", "post"}

\* an assignment changes the options only of the cell it fills and of the
\* cells of that cell's row, column and region
Local ==
    solver.pc \in {"sp", "ooi"} =>
        \A i \in Cells :
            solver'.grid[i].options # solver.grid[i].options =>
                \E c \in {i} \cup Peers[i] :
                    solver.grid[c].value = 0 /\ solver'.grid[c].value # 0

\* C26: candidate-set consistency and ordering.  After the initial
\* _fill_options and after every assignment, before the strategy examines the
\* next cell or digit, no unassigned cell's options contain a digit assigned
\* in its row, column or region; an assignment changes option sets only of
\* cells in the assigned cell's three lines.
C26_CandidatesConsistent == [](AtCheck => Consistent) /\ [][Local]_vars

\* a single_possibility pass has made an assignment, narrowed an empty cell
\* of the same row, column or region and goes on scanning
C26_Witness ==
    /\ solver.pc = "sp"
    /\ solver.p_changed
    /\ solver.cursor > 0
    /\ LET c == pos_to_idx(ScanPos(solver.cursor - 1))
       IN  /\ board[c] = 0
           /\ solver.grid[c].value # 0
           /\ \E i \in Peers[c] :
                 /\ solver.grid[i].value = 0
                 /\ solver.grid[c].value \notin solver.grid[i].options
                 /\ \A j \in Peers[i] \ {c} : solver.grid[j].value # solver.grid[c].value

\* the cells without a value
Empty(grid) == {i \in Cells : grid[i].value = 0}

\* what a step reports it has changed: a pass that turns its `changed` on, or
\* changes the grid, has given a value to a cell that had none and taken none
\* away; the _x wrapper turns its `changed` on only after such a pass, and the
\* loop goes round again only after such a wrapper
Progress ==
    solver.pc \in {"while", "sp", "ooi"} =>
        /\ (solver'.p_changed /\ ~solver.p_changed) \/ solver'.grid # solver.grid =>
              /\ Empty(solver'.grid) \subseteq Empty(solver.grid)
              /\ Empty(solver'.grid) # Empty(solver.grid)
        /\ solver'.x_changed /\ ~solver.x_changed => solver.p_changed
        /\ solver'.changed /\ ~solver.changed => solver.x_changed

\* C27: solve() and every filtered solve terminate on every 81-cell board,
\* valid or not, converged (solved or stalled) or with an error: every pass
\* that reports progress has assigned at least one previously empty cell, so
\* no strategy loop can report progress without changing the grid and there
\* are at most 81 progress-making passes.
C27_Terminates == [][Progress]_vars /\ <>(solver.pc = "done")

\* a call has returned on a board that fails check_validity, after a pass
\* that filled a cell
C27_Witness ==
    /\ solver.pc = "done"
    /\ solver.ret.kind = "return"
    /\ ~ check_validity(NewGrid(board))
    /\ Empty(solver.grid) # Empty(NewGrid(board))

\* the cells of line l lie in one column, in one row, or in one region
LineKind(l) ==
    IF \A k \in 1 .. 9 : SameCol(LineSeq(l)[1], LineSeq(l)[k]) THEN "column"
    ELSE IF \A k \in 1 .. 9 : SameRow(LineSeq(l)[1], LineSeq(l)[k]) THEN "row"
    ELSE "region"

NoContext == solver.curr_method = None /\ solver.curr_data = None

\* where the context is set: nowhere outside a strategy invocation; in a
\* single_possibility pass that of the pass; in the one_occurrence_in
\* invocation on a line that of the line
Scoped ==
    IF solver.pc = "sp"
    THEN \/ NoContext
         \/ /\ solver.cursor > 0
            /\ solver.curr_method = single_possibility
            /\ solver.curr_data = None
    ELSE IF solver.pc = "ooi" /\ solver.inside
    THEN /\ solver.curr_method = one_occurrence_in
         /\ solver.curr_data = LineKind(solver.line)
    ELSE NoContext

\* an assignment of a TracingSolver is recorded, and its narrowing runs, in
\* the context of the strategy and the line that made it
Attributed ==
    (Tracing(solver) /\ solver.pc \in {"sp", "ooi"} /\ solver'.grid # solver.grid) =>
        /\ solver'.curr_method = Strategy
        /\ Len(solver'.output) = Len(solver.output) + 1
        /\ LET step == solver'.output[Len(solver'.output)]
               c == pos_to_idx(step.pos)
           IN  /\ step.method = Strategy
               /\ solver.grid[c].value = 0
               /\ solver'.grid[c].value # 0
               /\ Strategy = single_possibility => solver'.curr_data = None
               /\ Strategy = one_occurrence_in =>
                     /\ c \in Range(LineSeq(solver'.line))
                     /\ step.dirn = LineKind(solver'.line)
                     /\ solver'.curr_data = LineKind(solver'.line)

\* C28: in TracingSolver the strategy context is scoped.  After a strategy
\* invocation returns or raises the context is what it was before it, so it
\* is null before and after every solve and never visible to a sibling
\* invocation; every narrowing update triggered by an assignment runs while
\* the context names the strategy, and for one_occurrence_in the line kind
\* (row, column or region), that made the assignment.
C28_ContextIsScoped == [](Tracing(solver) => Scoped) /\ [][Attributed]_vars

\* a TracingSolver is inside the one_occurrence_in invocation on a region,
\* after steps recorded for a column and for a row
C28_Witness ==
    /\ Tracing(solver)
    /\ solver.pc = "ooi"
    /\ solver.inside
    /\ solver.curr_data = "region"
    /\ \E j, k \in 1 .. Len(solver.output) :
          /\ solver.output[j].method = one_occurrence_in
          /\ solver.output[k].method = one_occurrence_in
          /\ solver.output[j].dirn = "column"
          /\ solver.output[k].dirn = "row"

\* the board generate_random_board made in the k-th trial, as it was made
RandBoard(k) ==
    LET made == generate_random_board(Imported, backend.drawn[k])
    IN  made.heap[made.ref]

\* C29: every non-null board returned by find_boards_matching is solvable by
\* deduction and its empty cells are exactly the cells removal_order[0..k],
\* k the recorded index of the last successful removal: the cell whose
\* removal failed holds its value again and no cell outside the prefix is
\* empty.
C29_ReturnedBoardIsPrefix ==
    Matched /\ backend.ret.value[3] # Nothing =>
        LET k == backend.ret.value[2]
            grid == backend.heap[backend.ret.value[3][1]]
        IN  /\ is_solvable(grid) = Returned(TRUE)
            /\ k + 1 \in 0 .. Len(backend.removal_order)
            /\ \E t \in Passed :
                  /\ Achieved(t) = k
                  /\ LET full == RandBoard(t)
                     IN  /\ grid = Without(full, Prefix(k + 1))
                         /\ \A i \in Cells : full[i] # 0

\* the search has returned, without success, a board on which removals of the
\* loop succeeded and the cell after them holds a digit
C29_Witness ==
    /\ Matched
    /\ backend.ret.value[1] = FALSE
    /\ backend.ret.value[3] # Nothing
    /\ backend.ret.value[2] + 1 > backend.want_min
    /\ backend.ret.value[2] + 1 < Len(backend.removal_order)
    /\ backend.heap[backend.ret.value[3][1]][backend.removal_order[backend.ret.value[2] + 2]] # 0

\* solve() alone on a new Solver of the same board
Fresh == Run(Call_solve(New("Solver", board, solver.debug)))

\* C30: applying the line_in_region pass after _fill_options does not change
\* what solve() concludes.  For a valid board, the solver on which
\* _fill_options and the pass were run and then solve() called ends with the
\* cell values and option sets of a fresh solver on which only solve() is
\* called; if the latter is solved so is the former, with check_validity()
\* true; and the pass never removes from a cell a digit the cell takes in a
\* valid completion.
C30_Original ==
    backend.op = "line_in_region" /\ check_validity(NewGrid(board)) =>
        /\ solver.pc = "done" =>
              /\ Values(solver.grid) = Values(Fresh.grid)
              /\ Options(solver.grid) = Options(Fresh.grid)
              /\ Fresh.ret = Returned(TRUE) =>
                    solver.ret = Returned(TRUE) /\ check_validity(solver.grid)
        /\ backend.pc = "solve" /\ Fresh.ret = Returned(TRUE) /\ check_validity(Fresh.grid) =>
              \A i \in Cells : Fresh.grid[i].value \in solver.grid[i].options

\* the pass has returned on BASE_BOARD without cells 30, 31, 39, 43 and 57, a
\* board solve() alone solves, and has left cell 57, whose digit is 9, with
\* no option
C30_Witness ==
    /\ backend.op = "line_in_region"
    /\ backend.pc = "solve"
    /\ board = Without(AsBoard(BASE_BOARD), {30, 31, 39, 43, 57})
    /\ Fresh.ret = Returned(TRUE)
    /\ Fresh.grid[57].value = 9
    /\ solver.grid[57].value = 0
    /\ solver.grid[57].options = {}
=============================================================================
